---- MODULE Spec2Model ----
(***************************************************************************)
(* Model of the playlist generator of spotify-playlist-gen:                *)
(*   - parseVibe, the free-text intent-to-target mapper;                   *)
(*   - generatePlaylist and its four generation strategies (standard with  *)
(*     duration fill, blend, time machine, genre deep dive) followed by    *)
(*     the finalizer;                                                      *)
(*   - gatherListeningData and buildTasteProfile, with the arithmetic of   *)
(*     JavaScript numbers;                                                 *)
(*   - the preset merge of generatePlaylist called repeatedly;             *)
(*   - SpotifyClient.request with its token refresh.                       *)
(* Descriptor targets (energy, valence, ...) are kept in hundredths, so    *)
(* 0.9 is 90; tempo is in BPM and popularity on the provider's 0..100      *)
(* scale.  Durations are in minutes (duration_ms / 60000).                 *)
(***************************************************************************)
EXTENDS Integers, Sequences, FiniteSets, TLC

(***************************************************************************)
(* Strings: the JavaScript string operations the code relies on.           *)
(***************************************************************************)
UpperChars == "ABCDEFGHIJKLMNOPQRSTUVWXYZ"

LowerChars == "abcdefghijklmnopqrstuvwxyz"

DigitChars == "0123456789_"

CharAt(s, i) == SubSeq(s, i, i)

LowerChar(c) ==
  IF \E i \in 1..Len(UpperChars) : CharAt(UpperChars, i) = c
  THEN CharAt(LowerChars, CHOOSE i \in 1..Len(UpperChars) : CharAt(UpperChars, i) = c)
  ELSE c

RECURSIVE toLowerCase(_)
toLowerCase(s) ==
  IF Len(s) = 0 THEN ""
  ELSE LowerChar(CharAt(s, 1)) \o toLowerCase(SubSeq(s, 2, Len(s)))

\* String.prototype.includes
includes(s, part) ==
  \E i \in 1..(Len(s) - Len(part) + 1) : SubSeq(s, i, i + Len(part) - 1) = part

\* String.prototype.split on a one-character separator: the set of parts
\* (the callers only ask whether some part satisfies a predicate).
RECURSIVE splitFrom(_, _, _, _)
splitFrom(s, sep, start, i) ==
  IF i > Len(s) THEN {SubSeq(s, start, Len(s))}
  ELSE IF CharAt(s, i) = sep
       THEN {SubSeq(s, start, i - 1)} \cup splitFrom(s, sep, i + 1, i + 1)
       ELSE splitFrom(s, sep, start, i + 1)

split(s, sep) == splitFrom(s, sep, 1, 1)

\* \w of a regular expression
IsWordChar(s, i) ==
  /\ i >= 1
  /\ i <= Len(s)
  /\ \/ \E k \in 1..Len(LowerChars) : CharAt(LowerChars, k) = CharAt(s, i)
     \/ \E k \in 1..Len(UpperChars) : CharAt(UpperChars, k) = CharAt(s, i)
     \/ \E k \in 1..Len(DigitChars) : CharAt(DigitChars, k) = CharAt(s, i)

\* \b between position p and position p + 1 of s
WordBoundary(s, p) == IsWordChar(s, p) # IsWordChar(s, p + 1)

\* /\b(a1|a2|...)\b/.test(s)
RegexTest(alts, s) ==
  \E a \in alts :
    \E i \in 1..(Len(s) - Len(a) + 1) :
      /\ SubSeq(s, i, i + Len(a) - 1) = a
      /\ WordBoundary(s, i - 1)
      /\ WordBoundary(s, i + Len(a) - 1)

(***************************************************************************)
(* Partial<RecommendationParams> as a function from the keys that are set. *)
(***************************************************************************)
EmptyParams == [k \in {} |-> 0]

\* { ...a, ...b }
Spread(a, b) ==
  [k \in (DOMAIN a) \cup (DOMAIN b) |-> IF k \in DOMAIN b THEN b[k] ELSE a[k]]

MOOD_PRESETS ==
  [happy     |-> [target_valence |-> 80, target_energy |-> 70, target_danceability |-> 65],
   sad       |-> [target_valence |-> 20, target_energy |-> 30, target_acousticness |-> 60],
   energetic |-> [target_energy |-> 90, target_danceability |-> 80, target_valence |-> 70],
   chill     |-> [target_energy |-> 30, target_danceability |-> 40,
                  target_acousticness |-> 50, target_valence |-> 50],
   angry     |-> [target_energy |-> 90, target_valence |-> 20, target_danceability |-> 50],
   romantic  |-> [target_valence |-> 60, target_energy |-> 40,
                  target_acousticness |-> 50, target_danceability |-> 50]]

ACTIVITY_PRESETS ==
  [workout |-> [target_energy |-> 90, target_danceability |-> 75,
                target_valence |-> 70, target_tempo |-> 140],
   focus   |-> [target_energy |-> 40, target_instrumentalness |-> 70,
                target_valence |-> 50, target_acousticness |-> 30],
   party   |-> [target_energy |-> 85, target_danceability |-> 90,
                target_valence |-> 80, min_popularity |-> 50],
   sleep   |-> [target_energy |-> 15, target_acousticness |-> 70,
                target_instrumentalness |-> 50, target_tempo |-> 70],
   commute |-> [target_energy |-> 60, target_valence |-> 60, target_danceability |-> 60],
   cooking |-> [target_energy |-> 60, target_valence |-> 70, target_danceability |-> 65]]

TIME_PRESETS ==
  [morning   |-> [target_energy |-> 50, target_valence |-> 70, target_acousticness |-> 40],
   afternoon |-> [target_energy |-> 65, target_valence |-> 65, target_danceability |-> 60],
   evening   |-> [target_energy |-> 55, target_valence |-> 55, target_danceability |-> 50],
   night     |-> [target_energy |-> 35, target_valence |-> 40, target_acousticness |-> 50]]

(***************************************************************************)
(* parseVibe: the keyword cascades, then the context override.             *)
(***************************************************************************)
EnergyCascade(lowerVibe, params) ==
  IF RegexTest({"hype", "pump", "intense", "powerful", "explosive", "wild"}, lowerVibe)
  THEN Spread(params, [target_energy |-> 90])
  ELSE IF RegexTest({"energetic", "upbeat", "lively", "dynamic"}, lowerVibe)
  THEN Spread(params, [target_energy |-> 75])
  ELSE IF RegexTest({"chill", "relaxed", "mellow", "calm", "peaceful", "soft"}, lowerVibe)
  THEN Spread(params, [target_energy |-> 30])
  ELSE IF RegexTest({"ambient", "dreamy", "floating"}, lowerVibe)
  THEN Spread(params, [target_energy |-> 20])
  ELSE params

ValenceCascade(lowerVibe, params) ==
  IF RegexTest({"happy", "joy", "euphoric", "celebrat", "cheerful", "bright"}, lowerVibe)
  THEN Spread(params, [target_valence |-> 80])
  ELSE IF RegexTest({"sad", "melanchol", "depress", "lonely", "heartbreak", "cry"}, lowerVibe)
  THEN Spread(params, [target_valence |-> 20])
  ELSE IF RegexTest({"angry", "rage", "furious", "aggressive"}, lowerVibe)
  THEN Spread(params, [target_valence |-> 20, target_energy |-> 90])
  ELSE IF RegexTest({"romantic", "love", "sensual", "intimate"}, lowerVibe)
  THEN Spread(params, [target_valence |-> 60, target_energy |-> 40])
  ELSE params

DanceabilityCascade(lowerVibe, params) ==
  IF RegexTest({"dance", "dancing", "groove", "groovy", "funky", "disco"}, lowerVibe)
  THEN Spread(params, [target_danceability |-> 85])
  ELSE IF RegexTest({"sway", "bob", "movement"}, lowerVibe)
  THEN Spread(params, [target_danceability |-> 65])
  ELSE params

\* params.target_energy || 0.5  (no cascade sets energy to 0)
EnergyOrDefault(params) ==
  IF "target_energy" \in DOMAIN params /\ params["target_energy"] # 0
  THEN params["target_energy"] ELSE 50

AcousticCascade(lowerVibe, params) ==
  IF RegexTest({"acoustic", "unplugged", "folk", "organic"}, lowerVibe)
  THEN Spread(params, [target_acousticness |-> 80])
  ELSE IF RegexTest({"electronic", "synth", "techno", "house", "edm"}, lowerVibe)
  THEN Spread(params, [target_acousticness |-> 10,
                       target_energy |-> EnergyOrDefault(params) + 20])
  ELSE params

InstrumentalCascade(lowerVibe, params) ==
  IF RegexTest({"instrumental", "no vocals", "without words", "background"}, lowerVibe)
  THEN Spread(params, [target_instrumentalness |-> 80])
  ELSE params

TempoCascade(lowerVibe, params) ==
  IF RegexTest({"fast", "quick", "rapid", "racing"}, lowerVibe)
  THEN Spread(params, [target_tempo |-> 140])
  ELSE IF RegexTest({"slow", "slowdown", "laid back"}, lowerVibe)
  THEN Spread(params, [target_tempo |-> 80])
  ELSE params

\* the value of params when the context checks start
KeywordCascade(lowerVibe) ==
  TempoCascade(lowerVibe,
    InstrumentalCascade(lowerVibe,
      AcousticCascade(lowerVibe,
        DanceabilityCascade(lowerVibe,
          ValenceCascade(lowerVibe,
            EnergyCascade(lowerVibe, EmptyParams))))))

\* The context groups in the order the code tests them, each with the
\* preset it spreads under params.
ContextGroups ==
  << [name |-> "morning",
      words |-> {"morning", "sunrise", "wake up", "breakfast"},
      preset |-> TIME_PRESETS.morning],
     [name |-> "latenight",
      words |-> {"late night", "midnight", "2am", "3am", "after hours", "coding session"},
      preset |-> [target_energy |-> 45, target_valence |-> 40, target_instrumentalness |-> 40]],
     [name |-> "evening",
      words |-> {"sunset", "golden hour", "evening"},
      preset |-> TIME_PRESETS.evening],
     [name |-> "workout",
      words |-> {"workout", "gym", "running", "exercise", "training"},
      preset |-> ACTIVITY_PRESETS.workout],
     [name |-> "focus",
      words |-> {"study", "focus", "concentrate", "work", "productivity"},
      preset |-> ACTIVITY_PRESETS.focus],
     [name |-> "party",
      words |-> {"party", "club", "pregame"},
      preset |-> ACTIVITY_PRESETS.party],
     [name |-> "sleep",
      words |-> {"sleep", "bedtime", "rest", "wind down"},
      preset |-> ACTIVITY_PRESETS.sleep],
     [name |-> "roadtrip",
      words |-> {"road trip", "driving", "drive"},
      preset |-> [target_energy |-> 70, target_valence |-> 70, target_danceability |-> 60]],
     [name |-> "coffee",
      words |-> {"coffee", "cafe", "jazz"},
      preset |-> [target_energy |-> 40, target_acousticness |-> 60,
                  target_instrumentalness |-> 40]] >>

ContextMatches(lowerVibe, g) == RegexTest(ContextGroups[g].words, lowerVibe)

\* Mutant of MatchedContext: the last matching group instead of the first.
MatchedContextLast(lowerVibe) ==
  IF \E g \in 1..Len(ContextGroups) : ContextMatches(lowerVibe, g)
  THEN CHOOSE g \in 1..Len(ContextGroups) :
         /\ ContextMatches(lowerVibe, g)
         /\ \A h \in (g + 1)..Len(ContextGroups) : ~ContextMatches(lowerVibe, h)
  ELSE 0

\* The if / else-if chain of the context checks: the index of the branch
\* that returns, 0 when the function falls through to `return params`.
MatchedContext(lowerVibe) ==
  IF \E g \in 1..Len(ContextGroups) : ContextMatches(lowerVibe, g)
  THEN CHOOSE g \in 1..Len(ContextGroups) :
         /\ ContextMatches(lowerVibe, g)
         /\ \A h \in 1..(g - 1) : ~ContextMatches(lowerVibe, h)
  ELSE 0

\* Mutant of ContextMerge: the preset spread on top of the keyword values.
ContextMergePresetWins(preset, params) == Spread(params, preset)

\* return { ...PRESET, ...params }
ContextMerge(preset, params) == Spread(preset, params)

parseVibe(vibe) ==
  LET lowerVibe == toLowerCase(vibe)
      params == KeywordCascade(lowerVibe)
      g == MatchedContext(lowerVibe)
  IN IF g # 0 THEN ContextMerge(ContextGroups[g].preset, params) ELSE params

(***************************************************************************)
(* State.  v*: one call of the intent-to-target mapper on a vibe text.     *)
(***************************************************************************)
VARIABLES vText, vWords, vpc, vResult

vibeVars == <<vText, vWords, vpc, vResult>>

(***************************************************************************)
(* State of one generatePlaylist invocation.                               *)
(*   options       the PlaylistOptions of the call (0, "" or <<>> stand    *)
(*                 for an absent field: the code tests them for truth)     *)
(*   currentYear   new Date().getFullYear()                                *)
(*   catalog       the provider's track data: duration and popularity of   *)
(*                 a track as a function of its id                         *)
(*   provider      the behaviour of the provider in this invocation        *)
(*   pc            the await the invocation is suspended at                *)
(*   profile       the TasteProfile built from the gathered history        *)
(*   strategy      the generation strategy dispatched to                   *)
(*   loc           the strategy's local variables                          *)
(*   recParams     the RecommendationParams being built                    *)
(*   lastRequest   the parameters of the latest getRecommendations call    *)
(*   calls         number of provider calls issued, by method              *)
(*   tracks        the track list (ids) accumulated so far                 *)
(*   nextId        the next track id the provider has not returned yet     *)
(*   dupResponses  responses so far that repeated an id within themselves  *)
(*   fill          bookkeeping of the duration-fill loop                   *)
(*   error, failedAt   the error thrown and the await it surfaced at       *)
(*   playlist      what the playlist-creation boundary has received        *)
(***************************************************************************)
VARIABLES options, currentYear, catalog, provider, pc, profile, strategy, loc, recParams,
          lastRequest, calls, tracks, nextId, dupResponses, fill, error,
          failedAt, playlist

genVars == <<options, currentYear, catalog, provider, pc, profile, strategy, loc, recParams,
             lastRequest, calls, tracks, nextId, dupResponses, fill, error,
             failedAt, playlist>>

(***************************************************************************)
(* State of one gatherListeningData call followed by buildTasteProfile.    *)
(*   listening     what the provider holds about the user: the four track  *)
(*                 tiers, the three artist tiers, and the audio            *)
(*                 descriptors of the tracks that have some                *)
(*   fetches       the state of each promise handed to Promise.all         *)
(*   tpc           the await the call is suspended at                      *)
(*   descriptorFetches   calls of getAudioFeatures so far                  *)
(*   tasteProfile  the TasteProfile returned by buildTasteProfile          *)
(*   tError        the rejection gatherListeningData ended with            *)
(***************************************************************************)
VARIABLES listening, fetches, tpc, descriptorFetches, tasteProfile, tError

tasteVars == <<listening, fetches, tpc, descriptorFetches, tasteProfile, tError>>

(***************************************************************************)
(* State of one SpotifyClient.request call.                                *)
(*   tokens        this.tokens, as far as request reads it                 *)
(*   cpc           the await the call is suspended at                      *)
(*   attempts      fetches of the endpoint so far                          *)
(*   refreshes     fetches of the token endpoint so far                    *)
(*   outcome       what the call returned or threw                         *)
(***************************************************************************)
VARIABLES tokens, cpc, attempts, refreshes, outcome

clientVars == <<tokens, cpc, attempts, refreshes, outcome>>

(***************************************************************************)
(* State of the intent-to-target mapping across calls of one process.      *)
(*   presets       the three preset tables, which are module-level objects *)
(*   request       the mood, activity, timeOfDay and vibe of the calls     *)
(*   mapped        what each call so far produced                          *)
(*   held          the recParams object the caller holds after the latest  *)
(*                 call: its content, and the preset it is the same object *)
(*                 as (<<>> when it is an object of its own)               *)
(*   written       whether the caller has assigned to a field of recParams *)
(***************************************************************************)
VARIABLES presets, request, mapped, held, written

mapperVars == <<presets, request, mapped, held, written>>

vars == <<vibeVars, genVars, tasteVars, clientVars, mapperVars>>

(***************************************************************************)
(* Vibe texts: the README's examples, and texts built from a vocabulary    *)
(* that has words of every keyword group and every context group.          *)
(***************************************************************************)
MaxVibeWords == 2

LiteralVibes ==
  {"", "late night coding session", "chill sunday morning coffee",
   "road trip through the desert", "intense gym session with heavy beats",
   "romantic dinner date", "rainy day melancholy"}

VibeVocabulary ==
  {"intense", "Upbeat", "chill", "angry", "electronic", "acoustic", "fast",
   "morning", "late", "night", "evening", "gym", "focus", "party", "sleep",
   "driving", "coffee", "celebrate", "depressed"}

RECURSIVE CountSpaces(_)
CountSpaces(s) ==
  IF Len(s) = 0 THEN 0
  ELSE (IF CharAt(s, 1) = " " THEN 1 ELSE 0) + CountSpaces(SubSeq(s, 2, Len(s)))

WordCount(s) == IF s = "" THEN 0 ELSE CountSpaces(s) + 1

VibeIdle ==
  /\ vText = ""
  /\ vWords = 0
  /\ vpc = "idle"
  /\ vResult = EmptyParams

\* 0 / 0: the averages of a history without any descriptor
NaN == -1

NoProfile ==
  [topGenres |-> <<>>, topArtistIds |-> <<>>, topTrackIds |-> <<>>,
   avgFeatures |-> [energy |-> NaN, valence |-> NaN, danceability |-> NaN]]

NoCalls ==
  [history |-> 0, search |-> 0, genres |-> 0, recommendations |-> 0, year |-> 0,
   me |-> 0, create |-> 0, add |-> 0]

\* the history of the duration-fill loop: whether it was entered, the requests
\* it sent, the responses that held no new track and those that held some,
\* the longest list held, the list held when the loop was left
NoFill == [entered |-> FALSE, iterations |-> 0, zeroNew |-> 0, productive |-> 0,
           maxLen |-> 0, accumulated |-> <<>>]

NoPlaylist == [created |-> 0, name |-> "", uris |-> <<>>]

DefaultOptions ==
  [name |-> "", trackCount |-> 0, duration |-> 0, mood |-> "", activity |-> "",
   timeOfDay |-> "", basedOn |-> "", vibe |-> "", discover |-> FALSE,
   blendWith |-> <<>>, birthYear |-> 0, targetYear |-> 0, genre |-> "",
   deepCuts |-> TRUE]

GenIdle ==
  /\ options = DefaultOptions
  /\ currentYear = 0
  /\ catalog = 0
  /\ provider = [repeatsIds |-> FALSE]
  /\ pc = "idle"
  /\ profile = NoProfile
  /\ strategy = "none"
  /\ loc = EmptyParams
  /\ recParams = EmptyParams
  /\ lastRequest = EmptyParams
  /\ calls = NoCalls
  /\ tracks = <<>>
  /\ nextId = 1
  /\ dupResponses = 0
  /\ fill = NoFill
  /\ error = ""
  /\ failedAt = ""
  /\ playlist = NoPlaylist

NoHistory ==
  [shortTerm |-> <<>>, mediumTerm |-> <<>>, longTerm |-> <<>>, recentlyPlayed |-> <<>>,
   artistsShort |-> <<>>, artistsMedium |-> <<>>, artistsLong |-> <<>>, described |-> {}]

FetchNames ==
  {"tracksShort", "tracksMedium", "tracksLong", "artistsShort", "artistsMedium",
   "artistsLong", "recentlyPlayed"}

TasteIdle ==
  /\ listening = NoHistory
  /\ fetches = [f \in FetchNames |-> "unstarted"]
  /\ tpc = "idle"
  /\ descriptorFetches = 0
  /\ tasteProfile = EmptyParams
  /\ tError = ""

NoTokens == [present |-> FALSE, expired |-> FALSE, refreshable |-> FALSE]

ClientIdle ==
  /\ tokens = NoTokens
  /\ cpc = "idle"
  /\ attempts = 0
  /\ refreshes = 0
  /\ outcome = ""

PresetTables == [mood |-> MOOD_PRESETS, activity |-> ACTIVITY_PRESETS, time |-> TIME_PRESETS]

NoRequest == [mood |-> "", activity |-> "", timeOfDay |-> "", vibe |-> ""]

NotHeld == [alias |-> <<>>, value |-> EmptyParams]

MapperIdle ==
  /\ presets = PresetTables
  /\ request = NoRequest
  /\ mapped = <<>>
  /\ held = NotHeld
  /\ written = FALSE

VibeInit ==
  /\ vText \in LiteralVibes
  /\ vWords = WordCount(vText)
  /\ vpc = "input"
  /\ vResult = EmptyParams
  /\ GenIdle
  /\ TasteIdle
  /\ ClientIdle
  /\ MapperIdle

\* the caller types one more word of the description
VibeAppendWord ==
  /\ vpc = "input"
  /\ vWords < MaxVibeWords
  /\ \E w \in VibeVocabulary :
       vText' = (IF vText = "" THEN w ELSE vText \o " " \o w)
  /\ vWords' = vWords + 1
  /\ UNCHANGED <<vpc, vResult, genVars, tasteVars, clientVars, mapperVars>>

\* const vibeParams = parseVibe(options.vibe)
VibeParse ==
  /\ vpc = "input"
  /\ vpc' = "parsed"
  /\ vResult' = parseVibe(vText)
  /\ UNCHANGED <<vText, vWords, genVars, tasteVars, clientVars, mapperVars>>

VibeNext == VibeAppendWord \/ VibeParse

VibeSpec == VibeInit /\ [][VibeNext]_vars

(***************************************************************************)
(* Properties of parseVibe, under VibeSpec.                                *)
(***************************************************************************)
HasKey(p, k) == k \in DOMAIN p

\* C9: when a context phrase matches, parseVibe returns the matched
\* context's preset as base with the keyword-cascade values on top: every
\* key a cascade set keeps the cascade value, every other preset key keeps
\* the preset value, and nothing else is set; "intense gym session with
\* heavy beats" gives energy 0.9 with the workout preset's tempo 140,
\* danceability 0.75 (and valence 0.7).
VibeContextIsBaseLayer ==
  (vpc = "parsed" /\ MatchedContext(toLowerCase(vText)) # 0) =>
    LET cascade == KeywordCascade(toLowerCase(vText))
        preset == ContextGroups[MatchedContext(toLowerCase(vText))].preset
    IN /\ DOMAIN vResult = (DOMAIN cascade) \cup (DOMAIN preset)
       /\ \A k \in DOMAIN cascade : vResult[k] = cascade[k]
       /\ \A k \in (DOMAIN preset) \ (DOMAIN cascade) : vResult[k] = preset[k]
       /\ (vText = "intense gym session with heavy beats" =>
             vResult = [target_energy |-> 90, target_tempo |-> 140,
                        target_danceability |-> 75, target_valence |-> 70])

\* C9 witness: a parsed text whose context preset and keyword cascade set
\* a common key, the preset also setting a key of its own.
VibeContextIsBaseLayerWitness ==
  /\ vpc = "parsed"
  /\ vText = "intense gym session with heavy beats"
  /\ HasKey(KeywordCascade(toLowerCase(vText)), "target_energy")
  /\ MatchedContext(toLowerCase(vText)) = 4
  /\ vResult["target_energy"] = 90

ClaimedContextOrder ==
  <<"morning", "latenight", "evening", "workout", "focus", "party", "sleep",
    "roadtrip", "coffee">>

GroupNamed(n) == CHOOSE g \in 1..Len(ContextGroups) : ContextGroups[g].name = n

NameMatches(lowerVibe, n) == RegexTest(ContextGroups[GroupNamed(n)].words, lowerVibe)

\* C10: only the first matching context group, in the order morning, late
\* night, sunset/evening, workout, focus, party, sleep, road trip, coffee,
\* contributes a base layer; with no match the keyword-cascade result is
\* returned unchanged; "chill sunday morning coffee" gives exactly energy
\* 0.3, valence 0.7 and acousticness 0.4.
VibeFirstContextOnly ==
  vpc = "parsed" =>
    LET lowerVibe == toLowerCase(vText)
        cascade == KeywordCascade(lowerVibe)
    IN /\ \A i \in 1..Len(ClaimedContextOrder) :
            (/\ NameMatches(lowerVibe, ClaimedContextOrder[i])
             /\ \A j \in 1..(i - 1) : ~NameMatches(lowerVibe, ClaimedContextOrder[j]))
            => vResult = Spread(ContextGroups[GroupNamed(ClaimedContextOrder[i])].preset,
                                cascade)
       /\ (\A i \in 1..Len(ClaimedContextOrder) :
             ~NameMatches(lowerVibe, ClaimedContextOrder[i])) => vResult = cascade
       /\ (vText = "chill sunday morning coffee" =>
             vResult = [target_energy |-> 30, target_valence |-> 70,
                        target_acousticness |-> 40])

\* C10 witness: a parsed text in which both the morning and the coffee
\* context match and the coffee preset's instrumentalness is absent.
VibeFirstContextOnlyWitness ==
  /\ vpc = "parsed"
  /\ NameMatches(toLowerCase(vText), "morning")
  /\ NameMatches(toLowerCase(vText), "coffee")
  /\ ~HasKey(vResult, "target_instrumentalness")

\* some word of s starts with the stem
StartsWord(s, stem) ==
  \E i \in 1..(Len(s) - Len(stem) + 1) :
    /\ SubSeq(s, i, i + Len(stem) - 1) = stem
    /\ ~IsWordChar(s, i - 1)

\* C11: the valence stems match inflected words: a text with a word that
\* starts with "celebrat" gets target_valence 0.8, and one with a word that
\* starts with "melanchol" or "depress" gets target_valence 0.2 when the
\* first valence group did not match.
ValenceStemsMatchInflections ==
  vpc = "parsed" =>
    LET lowerVibe == toLowerCase(vText)
        first == \/ StartsWord(lowerVibe, "celebrat")
                 \/ RegexTest({"happy", "joy", "euphoric", "cheerful", "bright"},
                              lowerVibe)
    IN /\ StartsWord(lowerVibe, "celebrat") =>
            HasKey(vResult, "target_valence") /\ vResult["target_valence"] = 80
       /\ (~first /\ (StartsWord(lowerVibe, "melanchol")
                        \/ StartsWord(lowerVibe, "depress"))) =>
            HasKey(vResult, "target_valence") /\ vResult["target_valence"] = 20

(***************************************************************************)
(* Arrays.                                                                 *)
(***************************************************************************)
Min(a, b) == IF a <= b THEN a ELSE b

\* Math.ceil(a / b) for a >= 0, b > 0
CeilDiv(a, b) == (a + b - 1) \div b

Contains(seq, x) == \E i \in DOMAIN seq : seq[i] = x

\* seq.slice(0, n)
Take(seq, n) == SubSeq(seq, 1, Min(n, Len(seq)))

\* Mutant of FilterNew: nothing is filtered out.
FilterNothing(moreTracks, existing) == moreTracks

\* moreTracks.filter(t => !existingIds.has(t.id)), existingIds being the
\* ids of `existing` at the time of the call
FilterNew(moreTracks, existing) ==
  LET isNew(id) == ~Contains(existing, id) IN SelectSeq(moreTracks, isNew)

\* parts.join(sep)
RECURSIVE JoinWith(_, _)
JoinWith(parts, sep) ==
  IF Len(parts) = 0 THEN ""
  ELSE IF Len(parts) = 1 THEN parts[1]
  ELSE parts[1] \o sep \o JoinWith(SubSeq(parts, 2, Len(parts)), sep)

HasRepeat(seq) == \E i, j \in DOMAIN seq : i # j /\ seq[i] = seq[j]

\* Array.prototype.sort with a comparator on a numeric key is stable: the
\* elements come out grouped by key, the groups in key order, each group in
\* its original order.
Keys(seq, key) == {key[seq[i]] : i \in DOMAIN seq}

WithKey(seq, key, v) == LET has(x) == key[x] = v IN SelectSeq(seq, has)

RECURSIVE GroupsAscending(_, _, _)
GroupsAscending(seq, key, keys) ==
  IF keys = {} THEN <<>>
  ELSE LET v == CHOOSE k \in keys : \A other \in keys : k <= other
       IN WithKey(seq, key, v) \o GroupsAscending(seq, key, keys \ {v})

RECURSIVE GroupsDescending(_, _, _)
GroupsDescending(seq, key, keys) ==
  IF keys = {} THEN <<>>
  ELSE LET v == CHOOSE k \in keys : \A other \in keys : k >= other
       IN WithKey(seq, key, v) \o GroupsDescending(seq, key, keys \ {v})

\* seq.sort((a, b) => key(a) - key(b))
SortAsc(seq, key) == GroupsAscending(seq, key, Keys(seq, key))

\* seq.sort((a, b) => key(b) - key(a))
SortDesc(seq, key) == GroupsDescending(seq, key, Keys(seq, key))

(***************************************************************************)
(* The provider's data.                                                    *)
(***************************************************************************)
\* track duration (minutes) and popularity by track id, cyclic patterns
Catalogs ==
  { [dur |-> <<3, 4>>, pop |-> <<20, 70, 45, 50, 49>>] }

Duration(id) == catalog.dur[(id % Len(catalog.dur)) + 1]

Popularity(id) == catalog.pop[(id % Len(catalog.pop)) + 1]

PopularityOf(ids) == [id \in {ids[i] : i \in DOMAIN ids} |-> Popularity(id)]

\* tracks.reduce((sum, t) => sum + t.duration_ms, 0) over ids[lo..hi]
RECURSIVE DurationOfRange(_, _, _)
DurationOfRange(ids, lo, hi) ==
  IF lo > hi THEN 0
  ELSE IF lo = hi THEN Duration(ids[lo])
  ELSE DurationOfRange(ids, lo, (lo + hi) \div 2)
       + DurationOfRange(ids, ((lo + hi) \div 2) + 1, hi)

TotalDuration(ids) == DurationOfRange(ids, 1, Len(ids))

CurrentYears == {2026}

\* the lists getAvailableGenres may return
GenreSeedLists ==
  { <<"k-pop", "pop", "rock", "synth-pop">>,
    <<"hip-hop", "jazz">> }

\* the TasteProfiles buildTasteProfile may return for the gathered history
ProfileSet ==
  { NoProfile,
    [topGenres |-> <<"indie rock", "synth-pop", "jazz">>,
     topArtistIds |-> <<"a1", "a2">>, topTrackIds |-> <<"t1">>,
     avgFeatures |-> [energy |-> 62, valence |-> 48, danceability |-> 66]] }

\* what search(name, [type], 1) finds, when it finds anything
ArtistCatalog ==
  [n \in {"Adele", "Daft Punk", "Nobody"} |->
     CASE n = "Adele" -> [id |-> "adele", genres |-> <<"pop", "british soul">>]
       [] n = "Daft Punk" ->
            [id |-> "daftpunk",
             genres |-> <<"electro", "synth-pop", "rock", "disco">>]
       [] OTHER -> [id |-> "nobody", genres |-> <<"k-pop", "pop">>]]

FreshIds(n) == [i \in 1..n |-> nextId + i - 1]

\* the numbers of not yet returned tracks a response to an initial request
\* may carry: none, one, one short of the limit, the limit
AnySize(limit) == {0, 1, limit - 1, limit} \cap (0..limit)

\* the same for a request of the fill loop: none, one short of the limit,
\* the limit
FillSize(limit) == {0, limit - 1, limit}

\* The responses a track-list request with this limit can get while `seen`
\* is the list the caller holds: up to `limit` tracks, a possibly empty
\* run of already-returned ids, then ids never returned before; a provider
\* that repeats ids within a response returns the first of them once more
\* where the limit leaves room.
TrackResponses(sizes, limit, seen) ==
  { r \in { [ids |-> Take(seen, k) \o FreshIds(n)
                       \o (IF provider.repeatsIds /\ n >= 1 /\ k + n < limit
                           THEN <<nextId>> ELSE <<>>),
             fresh |-> n,
             dup |-> provider.repeatsIds /\ n >= 1 /\ k + n < limit] :
              n \in sizes, k \in {0, 2} } :
      Len(r.ids) <= limit }

\* the behaviours of the provider explored: whether a response may carry
\* the same track twice
Providers == { [repeatsIds |-> b] : b \in BOOLEAN }

(***************************************************************************)
(* Options of the invocations explored.                                    *)
(***************************************************************************)
GenreRequests == {"synthwave", "Rock", "pop", "polka", "indie rock"}

GenreOptions ==
  { [DefaultOptions EXCEPT !.genre = g, !.deepCuts = d, !.trackCount = c] :
      g \in GenreRequests, d \in BOOLEAN, c \in {0, 2} }

TimeMachineOptions ==
  { [DefaultOptions EXCEPT !.birthYear = y[1], !.targetYear = y[2], !.trackCount = y[3]] :
      y \in { <<1800, 0, 3>>, <<1934, 0, 3>>, <<1990, 0, 1>>, <<2010, 0, 2>>,
              <<2020, 0, 3>>,
              <<0, 1995, 3>>, <<0, 1949, 3>>, <<1800, 1995, 1>>, <<1990, 1949, 1>> } }

BlendOptions ==
  { [DefaultOptions EXCEPT !.blendWith = b, !.trackCount = c] :
      b \in { <<"Adele">>, <<"Daft Punk", "Adele">>, <<"Nobody", "Adele", "Daft Punk">> },
      c \in {0, 2} }

StandardOptions ==
  { [DefaultOptions EXCEPT !.duration = d, !.trackCount = c] :
      d \in {0, 7, 350}, c \in {0, 3} }
  \cup { [DefaultOptions EXCEPT !.discover = TRUE, !.trackCount = 3],
         [DefaultOptions EXCEPT !.basedOn = "artist:Adele", !.trackCount = 3],
         [DefaultOptions EXCEPT !.basedOn = "track:Hello", !.duration = 7],
         [DefaultOptions EXCEPT !.basedOn = "album:25", !.trackCount = 3],
         [DefaultOptions EXCEPT !.mood = "sad", !.timeOfDay = "morning", !.trackCount = 3],
         [DefaultOptions EXCEPT !.mood = "happy", !.activity = "party",
                                !.timeOfDay = "night", !.trackCount = 3,
                                !.vibe = "intense gym session with heavy beats"] }

\* options that name more than one mode
MixedOptions ==
  { [DefaultOptions EXCEPT !.blendWith = <<"Adele">>, !.birthYear = 1990, !.genre = "pop",
                           !.mood = "happy", !.duration = 7, !.trackCount = 2],
    [DefaultOptions EXCEPT !.targetYear = 1995, !.genre = "pop", !.discover = TRUE,
                           !.vibe = "intense gym session with heavy beats",
                           !.duration = 7, !.trackCount = 1],
    [DefaultOptions EXCEPT !.genre = "rock", !.mood = "sad", !.discover = TRUE,
                           !.duration = 7, !.trackCount = 2] }

OptionsSet ==
  GenreOptions \cup TimeMachineOptions \cup BlendOptions \cup StandardOptions
    \cup MixedOptions

Init ==
  /\ VibeIdle
  /\ TasteIdle
  /\ ClientIdle
  /\ MapperIdle
  /\ options \in OptionsSet
  /\ currentYear \in CurrentYears
  /\ catalog \in Catalogs
  /\ provider \in Providers
  /\ pc = "gather"
  /\ profile = NoProfile
  /\ strategy = "none"
  /\ loc = EmptyParams
  /\ recParams = EmptyParams
  /\ lastRequest = EmptyParams
  /\ calls = NoCalls
  /\ tracks = <<>>
  /\ nextId = 1
  /\ dupResponses = 0
  /\ fill = NoFill
  /\ error = ""
  /\ failedAt = ""
  /\ playlist = NoPlaylist

(***************************************************************************)
(* Errors.  An exception leaves every async function on the stack: the     *)
(* invocation ends where it is.                                            *)
(***************************************************************************)
\* Mutant of Throw: the error is recorded but generation carries on into
\* the finalizer.
ThrowSwallowed(msg) ==
  /\ pc' = "getme"
  /\ error' = msg
  /\ failedAt' = pc
  /\ UNCHANGED <<options, currentYear, catalog, provider, profile, strategy, recParams,
                 lastRequest, calls, tracks, nextId, dupResponses, fill, playlist,
                 vibeVars, tasteVars, clientVars, mapperVars>>

\* throw new Error(msg), and a rejected await; the locals assigned before
\* the throw are the caller's to state
Throw(msg) ==
  /\ pc' = "failed"
  /\ error' = msg
  /\ failedAt' = pc
  /\ UNCHANGED <<options, currentYear, catalog, provider, profile, strategy, recParams,
                 lastRequest, calls, tracks, nextId, dupResponses, fill, playlist,
                 vibeVars, tasteVars, clientVars, mapperVars>>

GenerationPcs ==
  {"gather", "blend_search", "blend_genres", "blend_rec", "tm_year", "genre_list",
   "genre_rec1", "genre_rec2", "std_search", "std_genres", "std_rec", "std_fill"}

FinalizerPcs == {"getme", "create", "add"}

\* any spotifyClient call may reject
ProviderFails ==
  /\ pc \in GenerationPcs \cup FinalizerPcs
  /\ Throw("Spotify API error")
  /\ UNCHANGED loc

Issue(method) == [calls EXCEPT ![method] = @ + 1]

(***************************************************************************)
(* generatePlaylist: aggregation and dispatch.                             *)
(***************************************************************************)
IsBlend == Len(options.blendWith) > 0

IsTimeMachine == options.birthYear # 0 \/ options.targetYear # 0

IsGenre == options.genre # ""

\* Mutant of DispatchTarget: a genre is looked at before the years.
DispatchTargetGenreFirst ==
  IF IsBlend THEN "blend"
  ELSE IF IsGenre THEN "genre"
  ELSE IF IsTimeMachine THEN "timemachine"
  ELSE "standard"

\* the chain of `if`s under "Handle special playlist types"
DispatchTarget ==
  IF IsBlend THEN "blend"
  ELSE IF IsTimeMachine THEN "timemachine"
  ELSE IF IsGenre THEN "genre"
  ELSE "standard"

\* const data = await gatherListeningData();
\* const tasteProfile = buildTasteProfile(data);
GatherOk ==
  /\ pc = "gather"
  /\ \E p \in ProfileSet : profile' = p
  /\ strategy' = DispatchTarget
  /\ pc' = "dispatch"
  /\ calls' = Issue("history")
  /\ UNCHANGED <<options, currentYear, catalog, provider, loc, recParams, lastRequest,
                 tracks, nextId, dupResponses, fill, error, failedAt, playlist,
                 vibeVars, tasteVars, clientVars, mapperVars>>

(***************************************************************************)
(* Blend.                                                                  *)
(***************************************************************************)
\* [...new Set(seq)]
RECURSIVE Dedupe(_)
Dedupe(seq) ==
  IF seq = <<>> THEN <<>>
  ELSE LET front == Dedupe(SubSeq(seq, 1, Len(seq) - 1))
       IN IF Contains(front, seq[Len(seq)]) THEN front ELSE Append(front, seq[Len(seq)])

\* options.trackCount || 30
BlendTrackCount == IF options.trackCount # 0 THEN options.trackCount ELSE 30

\* (avg + 0.6) / 2, exact in hundredths for the even sums of ProfileSet
BlendTarget(avg) == IF avg = NaN THEN NaN ELSE (avg + 60) \div 2

DispatchBlend ==
  /\ pc = "dispatch"
  /\ strategy = "blend"
  /\ loc' = [artistIds |-> <<>>, artistGenres |-> <<>>, searched |-> 1]
  /\ calls' = Issue("search")
  /\ pc' = "blend_search"
  /\ UNCHANGED <<options, currentYear, catalog, provider, profile, strategy, recParams, lastRequest,
                 tracks, nextId, dupResponses, fill, error, failedAt, playlist,
                 vibeVars, tasteVars, clientVars, mapperVars>>

\* search(artistName, ['artist'], 1) has answered for blendWith[loc.searched]
BlendSearchOk ==
  /\ pc = "blend_search"
  /\ \E found \in BOOLEAN :
       LET artist == ArtistCatalog[options.blendWith[loc.searched]]
           artistIds == IF found THEN Append(loc.artistIds, artist.id)
                        ELSE loc.artistIds
           artistGenres == IF found THEN loc.artistGenres \o Take(artist.genres, 3)
                           ELSE loc.artistGenres
           frame == UNCHANGED <<options, currentYear, catalog, provider, profile, strategy,
                                recParams, lastRequest, tracks, nextId, dupResponses,
                                fill, error, failedAt, playlist, vibeVars, tasteVars, clientVars, mapperVars>>
       IN IF loc.searched < Len(options.blendWith)
          THEN /\ loc' = [artistIds |-> artistIds, artistGenres |-> artistGenres,
                          searched |-> loc.searched + 1]
               /\ calls' = Issue("search")
               /\ pc' = "blend_search"
               /\ frame
          ELSE /\ loc' = [artistIds |-> artistIds, artistGenres |-> artistGenres,
                          searched |-> loc.searched]
               /\ IF Len(artistIds) = 0
                  THEN Throw("Could not find any of the specified artists to blend with")
                  ELSE /\ calls' = Issue("genres")
                       /\ pc' = "blend_genres"
                       /\ frame

\* artistGenres.filter(g => userGenres.some(ug => ug.includes(g) || g.includes(ug)))
CommonGenres(artistGenres, userGenres) ==
  LET overlaps(g) == \E i \in DOMAIN userGenres :
                        includes(userGenres[i], g) \/ includes(g, userGenres[i])
  IN SelectSeq(artistGenres, overlaps)

\* Mutant of ValidGenreSeeds: the genres are taken in the order collected.
ValidGenreSeedsAsCollected(artistGenres, userGenres, availableGenres) ==
  LET allowed(g) == Contains(availableGenres, g)
  IN Take(SelectSeq(Dedupe(artistGenres), allowed), 2)

\* [...new Set([...commonGenres, ...artistGenres])].filter(...).slice(0, 2)
ValidGenreSeeds(artistGenres, userGenres, availableGenres) ==
  LET allowed(g) == Contains(availableGenres, g)
  IN Take(SelectSeq(Dedupe(CommonGenres(artistGenres, userGenres) \o artistGenres),
                    allowed), 2)

BlendParams(availableGenres) ==
  LET validGenreSeeds == ValidGenreSeeds(loc.artistGenres, profile.topGenres,
                                         availableGenres)
      base == [seed_artists |-> Take(Take(loc.artistIds, 2)
                                       \o Take(profile.topArtistIds, 1), 3),
               limit |-> BlendTrackCount,
               target_energy |-> BlendTarget(profile.avgFeatures.energy),
               target_valence |-> BlendTarget(profile.avgFeatures.valence),
               target_danceability |-> BlendTarget(profile.avgFeatures.danceability)]
  IN IF Len(validGenreSeeds) > 0
     THEN Spread(base, [seed_genres |-> validGenreSeeds]) ELSE base

\* getAvailableGenres() has answered: the recommendation request is sent
BlendGenresOk ==
  /\ pc = "blend_genres"
  /\ \E availableGenres \in GenreSeedLists :
       /\ loc' = Spread(loc, [availableGenres |-> availableGenres])
       /\ recParams' = BlendParams(availableGenres)
  /\ lastRequest' = recParams'
  /\ calls' = Issue("recommendations")
  /\ pc' = "blend_rec"
  /\ UNCHANGED <<options, currentYear, catalog, provider, profile, strategy, tracks, nextId,
                 dupResponses, fill, error, failedAt, playlist, vibeVars, tasteVars, clientVars, mapperVars>>

\* return spotifyClient.getRecommendations(recParams)
BlendRecOk ==
  /\ pc = "blend_rec"
  /\ \E r \in TrackResponses(AnySize(lastRequest.limit), lastRequest.limit, <<>>) :
       /\ tracks' = r.ids
       /\ nextId' = nextId + r.fresh
       /\ dupResponses' = dupResponses + (IF r.dup THEN 1 ELSE 0)
  /\ calls' = Issue("me")
  /\ pc' = "getme"
  /\ UNCHANGED <<options, currentYear, catalog, provider, profile, strategy, loc, recParams,
                 lastRequest, fill, error, failedAt, playlist, vibeVars, tasteVars, clientVars, mapperVars>>

(***************************************************************************)
(* Time machine.                                                           *)
(***************************************************************************)
MinYear == 1950

\* the years before clamping
RequestedYears ==
  IF options.targetYear # 0 THEN <<options.targetYear>>
  ELSE IF options.birthYear # 0
       THEN [i \in 1..5 |-> options.birthYear + 14 + (i - 1)]
       ELSE <<>>

\* Mutant of ValidYears: the upper bound of the clamp is not applied.
ValidYearsNoUpperBound(years) ==
  LET valid(y) == y >= MinYear IN SelectSeq(years, valid)

\* Mutant of ValidYears: the lower bound of the clamp is not applied.
ValidYearsNoLowerBound(years) ==
  LET valid(y) == y <= currentYear IN SelectSeq(years, valid)

\* targetYears.filter(y => y >= 1950 && y <= currentYear)
ValidYears(years) ==
  LET valid(y) == y >= MinYear /\ y <= currentYear IN SelectSeq(years, valid)

\* options.trackCount || 30
TimeMachineTrackCount == IF options.trackCount # 0 THEN options.trackCount ELSE 30

\* generateTimeMachinePlaylist up to its first await
DispatchTimeMachine ==
  /\ pc = "dispatch"
  /\ strategy = "timemachine"
  /\ IF options.targetYear = 0 /\ options.birthYear = 0
     THEN /\ loc' = [targetYears |-> <<>>]
          /\ Throw("Must specify either birthYear or targetYear for time machine")
     ELSE IF ValidYears(RequestedYears) = <<>>
     THEN /\ loc' = [targetYears |-> <<>>]
          /\ Throw("No valid years to search for")
     ELSE /\ loc' = [targetYears |-> ValidYears(RequestedYears),
                     tracksPerYear |-> CeilDiv(TimeMachineTrackCount,
                                               Len(ValidYears(RequestedYears))),
                     queried |-> <<ValidYears(RequestedYears)[1]>>]
          /\ calls' = Issue("year")
          /\ pc' = "tm_year"
          /\ UNCHANGED <<options, currentYear, catalog, provider, profile, strategy, recParams, lastRequest,
                         tracks, nextId, dupResponses, fill, error, failedAt, playlist,
                         vibeVars, tasteVars, clientVars, mapperVars>>

\* the arrangements array.sort(() => Math.random() - 0.5) can leave
Shuffles(seq) ==
  { [i \in 1..Len(seq) |-> seq[f[i]]] : f \in Permutations(1..Len(seq)) }

\* searchTracksByYear(year, tracksPerYear + 20) has answered for the year
\* asked last: keep the year's hits, ask for the next year or shuffle
TimeMachineYearOk ==
  /\ pc = "tm_year"
  /\ \E r \in TrackResponses(AnySize(loc.tracksPerYear + 20), loc.tracksPerYear + 20, tracks) :
       LET fresh == FilterNew(r.ids, tracks)
           sortedTracks == Take(SortDesc(fresh, PopularityOf(fresh)), loc.tracksPerYear)
           allTracks == tracks \o sortedTracks
       IN /\ nextId' = nextId + r.fresh
          /\ dupResponses' = dupResponses + (IF r.dup THEN 1 ELSE 0)
          /\ IF Len(loc.queried) < Len(loc.targetYears)
             THEN /\ tracks' = allTracks
                  /\ loc' = [loc EXCEPT !.queried =
                               Append(@, loc.targetYears[Len(@) + 1])]
                  /\ calls' = Issue("year")
                  /\ pc' = "tm_year"
             ELSE /\ \E shuffled \in Shuffles(allTracks) :
                       tracks' = Take(shuffled, TimeMachineTrackCount)
                  /\ calls' = Issue("me")
                  /\ pc' = "getme"
                  /\ UNCHANGED loc
  /\ UNCHANGED <<options, currentYear, catalog, provider, profile, strategy, recParams,
                 lastRequest, fill, error, failedAt, playlist, vibeVars, tasteVars, clientVars, mapperVars>>

(***************************************************************************)
(* Genre deep dive.                                                        *)
(***************************************************************************)
\* Array.prototype.find: index of the first element the callback accepts,
\* 0 if none; hits[i] is the callback's answer for element i
FindIndex(hits) ==
  IF \E i \in DOMAIN hits : hits[i]
  THEN CHOOSE i \in DOMAIN hits : hits[i] /\ \A j \in 1..(i - 1) : ~hits[j]
  ELSE 0

ExactOrSubstring(g, genre) ==
  \/ toLowerCase(g) = toLowerCase(genre)
  \/ includes(toLowerCase(g), toLowerCase(genre))
  \/ includes(toLowerCase(genre), toLowerCase(g))

TokenOverlap(g, genre) ==
  \/ \E part \in split(toLowerCase(g), "-") : includes(toLowerCase(genre), part)
  \/ \E part \in split(toLowerCase(genre), " ") : includes(toLowerCase(g), part)

\* availableGenres.find(g => exact || substring either way), "" if none
MatchedGenre(availableGenres, genre) ==
  LET i == FindIndex([k \in DOMAIN availableGenres |->
                         ExactOrSubstring(availableGenres[k], genre)])
  IN IF i = 0 THEN "" ELSE availableGenres[i]

FuzzyMatch(availableGenres, genre) ==
  LET i == FindIndex([k \in DOMAIN availableGenres |->
                         TokenOverlap(availableGenres[k], genre)])
  IN IF i = 0 THEN "" ELSE availableGenres[i]

\* `Genre "${genre}" not available. Try: ${availableGenres.slice(0, 10).join(', ')}...`
GenreNotAvailable(availableGenres, genre) ==
  "Genre \"" \o genre \o "\" not available. Try: "
    \o JoinWith(Take(availableGenres, 10), ", ") \o "..."

\* Mutant of GenreAvailable: only exact and substring matches resolve.
GenreAvailableNoFuzzy(availableGenres, genre) ==
  MatchedGenre(availableGenres, genre) # ""

\* whether resolution gets past the `throw`
GenreAvailable(availableGenres, genre) ==
  \/ MatchedGenre(availableGenres, genre) # ""
  \/ FuzzyMatch(availableGenres, genre) # ""

\* const genreSeed = matchedGenre || genre;
GenreSeed(availableGenres, genre) ==
  IF MatchedGenre(availableGenres, genre) # ""
  THEN MatchedGenre(availableGenres, genre) ELSE genre

IsDeepCuts == options.deepCuts # FALSE

\* options.trackCount || 25
GenreTrackCount == IF options.trackCount # 0 THEN options.trackCount ELSE 25

DispatchGenre ==
  /\ pc = "dispatch"
  /\ strategy = "genre"
  /\ pc' = "genre_list"
  /\ calls' = Issue("genres")
  /\ UNCHANGED <<options, currentYear, catalog, provider, profile, strategy, loc, recParams, lastRequest,
                 tracks, nextId, dupResponses, fill, error, failedAt, playlist,
                 vibeVars, tasteVars, clientVars, mapperVars>>

GenreFirstParams(genreSeed) ==
  LET base == [seed_genres |-> <<genreSeed>>, limit |-> 100,
               target_energy |-> profile.avgFeatures.energy,
               target_valence |-> profile.avgFeatures.valence]
      capped == IF IsDeepCuts THEN Spread(base, [max_popularity |-> 40]) ELSE base
  IN IF Len(Take(profile.topArtistIds, 3)) > 0
     THEN Spread(capped, [seed_artists |-> <<profile.topArtistIds[1]>>])
     ELSE capped

\* getAvailableGenres() has answered: resolve the genre, send the first
\* recommendation request
GenreListOk ==
  /\ pc = "genre_list"
  /\ \E availableGenres \in GenreSeedLists :
       IF ~GenreAvailable(availableGenres, options.genre)
       THEN /\ loc' = [availableGenres |-> availableGenres]
            /\ Throw(GenreNotAvailable(availableGenres, options.genre))
       ELSE /\ loc' = [availableGenres |-> availableGenres,
                       genreSeed |-> GenreSeed(availableGenres, options.genre)]
            /\ recParams' = GenreFirstParams(GenreSeed(availableGenres, options.genre))
            /\ lastRequest' = recParams'
            /\ calls' = Issue("recommendations")
            /\ pc' = "genre_rec1"
            /\ UNCHANGED <<options, currentYear, catalog, provider, profile, strategy, tracks,
                           nextId, dupResponses, fill, error, failedAt, playlist,
                           vibeVars, tasteVars, clientVars, mapperVars>>

GenreSupplementalParams ==
  LET base == [seed_genres |-> <<loc.genreSeed>>, limit |-> 50]
  IN IF IsDeepCuts THEN Spread(base, [max_popularity |-> 50]) ELSE base

\* if (isDeepCuts) tracks.sort(...); return tracks.slice(0, trackCount || 25)
GenreResult(list) ==
  Take(IF IsDeepCuts THEN SortAsc(list, PopularityOf(list)) ELSE list, GenreTrackCount)

\* tracks.filter(t => t.popularity < 50) in deep-cuts mode
DeepCutsFilter(list) ==
  LET deep(id) == Popularity(id) < 50
  IN IF IsDeepCuts THEN SelectSeq(list, deep) ELSE list

\* the first recommendation response
GenreRec1Ok ==
  /\ pc = "genre_rec1"
  /\ \E r \in TrackResponses(AnySize(100), 100, <<>>) :
       LET filtered == DeepCutsFilter(r.ids)
       IN /\ nextId' = nextId + r.fresh
          /\ dupResponses' = dupResponses + (IF r.dup THEN 1 ELSE 0)
          /\ IF Len(filtered) < GenreTrackCount
             THEN /\ tracks' = filtered
                  /\ lastRequest' = GenreSupplementalParams
                  /\ calls' = Issue("recommendations")
                  /\ pc' = "genre_rec2"
             ELSE /\ tracks' = GenreResult(filtered)
                  /\ pc' = "getme"
                  /\ calls' = Issue("me")
                  /\ UNCHANGED lastRequest
  /\ UNCHANGED <<options, currentYear, catalog, provider, profile, strategy, loc, recParams,
                 fill, error, failedAt, playlist, vibeVars, tasteVars, clientVars, mapperVars>>

\* the supplemental response
GenreRec2Ok ==
  /\ pc = "genre_rec2"
  /\ \E r \in TrackResponses(AnySize(50), 50, tracks) :
       /\ nextId' = nextId + r.fresh
       /\ dupResponses' = dupResponses + (IF r.dup THEN 1 ELSE 0)
       /\ tracks' = GenreResult(tracks \o FilterNew(r.ids, tracks))
  /\ pc' = "getme"
  /\ calls' = Issue("me")
  /\ UNCHANGED <<options, currentYear, catalog, provider, profile, strategy, loc, recParams,
                 lastRequest, fill, error, failedAt, playlist, vibeVars, tasteVars, clientVars, mapperVars>>

(***************************************************************************)
(* Standard generation, with the duration-fill loop.                       *)
(***************************************************************************)
\* options.trackCount || 25
StandardTrackCount == IF options.trackCount # 0 THEN options.trackCount ELSE 25

\* the loop stops fetching once this many tracks are held
FillCap == 100

\* the limit of every request of the fill loop
FillLimit == 20

PresetOf(table, key) ==
  IF key # "" /\ key \in DOMAIN table THEN table[key] ELSE EmptyParams

\* Mutant of StandardBaseParams: the layers are merged in the reverse order.
StandardBaseParamsReversed ==
  LET r0 == IF options.vibe # "" THEN parseVibe(options.vibe) ELSE EmptyParams
      r1 == Spread(r0, PresetOf(TIME_PRESETS, options.timeOfDay))
      r2 == Spread(r1, PresetOf(ACTIVITY_PRESETS, options.activity))
      r3 == Spread(r2, PresetOf(MOOD_PRESETS, options.mood))
  IN Spread(r3, [limit |-> StandardTrackCount])

\* recParams after the presets and the vibe
StandardBaseParams ==
  LET r0 == [limit |-> StandardTrackCount]
      r1 == Spread(r0, PresetOf(MOOD_PRESETS, options.mood))
      r2 == Spread(r1, PresetOf(ACTIVITY_PRESETS, options.activity))
      r3 == Spread(r2, PresetOf(TIME_PRESETS, options.timeOfDay))
  IN IF options.vibe # "" THEN Spread(r3, parseVibe(options.vibe)) ELSE r3

\* position of the first ':' of s, Len(s) + 1 if there is none
RECURSIVE ColonAt(_, _)
ColonAt(s, i) ==
  IF i > Len(s) THEN i ELSE IF CharAt(s, i) = ":" THEN i ELSE ColonAt(s, i + 1)

\* const [type, ...nameParts] = options.basedOn.split(':')
BasedOnType == SubSeq(options.basedOn, 1, ColonAt(options.basedOn, 1) - 1)

BasedOnName ==
  SubSeq(options.basedOn, ColonAt(options.basedOn, 1) + 1, Len(options.basedOn))

\* what search(name, ['track'], 1) finds, when it finds anything
TrackCatalog == [n \in {"Hello"} |-> "hello"]

\* recParams.seed_x?.length
SeedLength(rp, k) == IF k \in DOMAIN rp THEN Len(rp[k]) ELSE 0

\* "Set seeds from user's taste if not already set": the possible outcomes;
\* the sort shuffles the profile's own arrays
SeedChoices(rp) ==
  IF SeedLength(rp, "seed_artists") = 0 /\ SeedLength(rp, "seed_tracks") = 0
  THEN { [rp |-> Spread(rp, [seed_artists |-> Take(sa, 2), seed_tracks |-> Take(st, 2)]),
          profile |-> [profile EXCEPT !.topArtistIds = sa, !.topTrackIds = st]] :
            sa \in Shuffles(profile.topArtistIds),
            st \in Shuffles(profile.topTrackIds) }
  ELSE { [rp |-> rp, profile |-> profile] }

\* the taste-profile fallback for unset targets, and the initial limit of a
\* duration request: Math.ceil(duration / 3.5)
StandardFinalParams(rp, prof) ==
  LET r1 == IF "target_energy" \in DOMAIN rp THEN rp
            ELSE Spread(rp, [target_energy |-> prof.avgFeatures.energy])
      r2 == IF "target_valence" \in DOMAIN r1 THEN r1
            ELSE Spread(r1, [target_valence |-> prof.avgFeatures.valence])
      r3 == IF "target_danceability" \in DOMAIN r2 THEN r2
            ELSE Spread(r2, [target_danceability |-> prof.avgFeatures.danceability])
  IN IF options.duration # 0 /\ options.trackCount = 0
     THEN Spread(r3, [limit |-> CeilDiv(2 * options.duration, 7)])
     ELSE r3

\* from "Set seeds from user's taste" to the next await: the genre list in
\* discovery mode with a non-empty topGenres, else the recommendations
StandardSeedsThenRequest(rp) ==
  \E c \in SeedChoices(rp) :
    /\ profile' = c.profile
    /\ IF options.discover /\ Len(c.profile.topGenres) > 0
       THEN /\ recParams' = Spread(c.rp, [max_popularity |-> 50])
            /\ calls' = Issue("genres")
            /\ pc' = "std_genres"
            /\ UNCHANGED lastRequest
       ELSE /\ recParams' = StandardFinalParams(
                              IF options.discover
                              THEN Spread(c.rp, [max_popularity |-> 50]) ELSE c.rp,
                              c.profile)
            /\ lastRequest' = recParams'
            /\ calls' = Issue("recommendations")
            /\ pc' = "std_rec"

DispatchStandard ==
  /\ pc = "dispatch"
  /\ strategy = "standard"
  /\ IF options.basedOn # "" /\ BasedOnType \in {"artist", "track"}
     THEN /\ recParams' = StandardBaseParams
          /\ calls' = Issue("search")
          /\ pc' = "std_search"
          /\ UNCHANGED <<profile, lastRequest>>
     ELSE StandardSeedsThenRequest(StandardBaseParams)
  /\ UNCHANGED <<options, currentYear, catalog, provider, strategy, loc, tracks, nextId, dupResponses,
                 fill, error, failedAt, playlist, vibeVars, tasteVars, clientVars, mapperVars>>

\* the search for the basedOn artist or track has answered
StandardSearchOk ==
  /\ pc = "std_search"
  /\ \E found \in BOOLEAN :
       StandardSeedsThenRequest(
         IF ~found THEN recParams
         ELSE IF BasedOnType = "artist"
              THEN Spread(recParams, [seed_artists |-> <<ArtistCatalog[BasedOnName].id>>])
              ELSE Spread(recParams, [seed_tracks |-> <<TrackCatalog[BasedOnName]>>]))
  /\ UNCHANGED <<options, currentYear, catalog, provider, strategy, loc, tracks, nextId,
                 dupResponses, fill, error, failedAt, playlist, vibeVars, tasteVars, clientVars, mapperVars>>

\* discovery: the first top genre the provider allows becomes the genre
\* seed and the artist and track seeds are cut to one each
DiscoverySeeds(rp, availableGenres) ==
  LET i == FindIndex([k \in DOMAIN profile.topGenres |->
                         Contains(availableGenres, profile.topGenres[k])])
      r1 == Spread(rp, [seed_genres |-> <<profile.topGenres[i]>>])
      r2 == IF "seed_artists" \in DOMAIN r1
            THEN Spread(r1, [seed_artists |-> Take(r1["seed_artists"], 1)]) ELSE r1
      r3 == IF "seed_tracks" \in DOMAIN r2
            THEN Spread(r2, [seed_tracks |-> Take(r2["seed_tracks"], 1)]) ELSE r2
  IN IF i = 0 THEN rp ELSE r3

\* getAvailableGenres() has answered in discovery mode
StandardGenresOk ==
  /\ pc = "std_genres"
  /\ \E availableGenres \in GenreSeedLists :
       /\ loc' = [availableGenres |-> availableGenres]
       /\ recParams' = StandardFinalParams(DiscoverySeeds(recParams, availableGenres),
                                           profile)
  /\ lastRequest' = recParams'
  /\ calls' = Issue("recommendations")
  /\ pc' = "std_rec"
  /\ UNCHANGED <<options, currentYear, catalog, provider, profile, strategy, tracks, nextId,
                 dupResponses, fill, error, failedAt, playlist, vibeVars, tasteVars, clientVars, mapperVars>>

\* "Trim to target duration": the filter callback on list[lo..hi], entered
\* with accumulatedDuration = acc; a track is kept while the duration kept
\* before it is below the target (the range is halved to keep the
\* evaluation shallow)
RECURSIVE TrimRange(_, _, _, _, _)
TrimRange(list, lo, hi, acc, target) ==
  IF lo > hi THEN [kept |-> <<>>, acc |-> acc]
  ELSE IF lo = hi
  THEN IF acc >= target THEN [kept |-> <<>>, acc |-> acc]
       ELSE [kept |-> <<list[lo]>>, acc |-> acc + Duration(list[lo])]
  ELSE LET left == TrimRange(list, lo, (lo + hi) \div 2, acc, target)
           right == TrimRange(list, ((lo + hi) \div 2) + 1, hi, left.acc, target)
       IN [kept |-> left.kept \o right.kept, acc |-> right.acc]

\* Mutant of TrimToDuration: a track is dropped only once the duration kept
\* exceeds the target.
TrimOnceExceeded(list) == TrimRange(list, 1, Len(list), 0, options.duration + 1).kept

\* tracks = tracks.filter(...) with accumulatedDuration = 0 at the start
TrimToDuration(list) == TrimRange(list, 1, Len(list), 0, options.duration).kept

\* while (currentDuration < targetDurationMs && tracks.length < 100)
FillContinues(list) ==
  /\ TotalDuration(list) < options.duration
  /\ Len(list) < FillCap

ShuffledSeeds(rp) ==
  { Spread(rp, Spread(IF "seed_artists" \in DOMAIN rp THEN [seed_artists |-> sa]
                      ELSE EmptyParams,
                      IF "seed_tracks" \in DOMAIN rp THEN [seed_tracks |-> st]
                      ELSE EmptyParams)) :
      sa \in (IF "seed_artists" \in DOMAIN rp THEN Shuffles(rp["seed_artists"])
              ELSE {<<>>}),
      st \in (IF "seed_tracks" \in DOMAIN rp THEN Shuffles(rp["seed_tracks"])
              ELSE {<<>>}) }

\* the list after the duration block: trimmed, the tracks go to the
\* finalizer; `history` is the loop's history so far
StandardFinish(list, history) ==
  /\ tracks' = (IF options.duration # 0 THEN TrimToDuration(list) ELSE list)
  /\ fill' = [history EXCEPT !.maxLen = IF Len(list) > @ THEN Len(list) ELSE @,
                             !.accumulated = list]
  /\ calls' = Issue("me")
  /\ pc' = "getme"
  /\ UNCHANGED <<recParams, lastRequest>>

\* the loop test with `list` accumulated: another request with reshuffled
\* seeds, or the end of the loop
StandardFillOrFinish(list, history) ==
  IF options.duration # 0 /\ FillContinues(list)
  THEN /\ \E rp \in ShuffledSeeds(recParams) :
            /\ recParams' = rp
            /\ lastRequest' = Spread(rp, [limit |-> FillLimit])
       /\ tracks' = list
       /\ fill' = [history EXCEPT !.entered = TRUE, !.iterations = @ + 1,
                                  !.maxLen = IF Len(list) > @ THEN Len(list) ELSE @,
                                  !.accumulated = list]
       /\ calls' = Issue("recommendations")
       /\ pc' = "std_fill"
  ELSE StandardFinish(list, history)

\* let tracks = await spotifyClient.getRecommendations(recParams)
StandardRecOk ==
  /\ pc = "std_rec"
  /\ \E r \in TrackResponses(AnySize(lastRequest.limit), lastRequest.limit, <<>>) :
       /\ nextId' = nextId + r.fresh
       /\ dupResponses' = dupResponses + (IF r.dup THEN 1 ELSE 0)
       /\ StandardFillOrFinish(r.ids, fill)
  /\ UNCHANGED <<options, currentYear, catalog, provider, profile, strategy, loc, error,
                 failedAt, playlist, vibeVars, tasteVars, clientVars, mapperVars>>

\* Mutant of NoNewTracks: an iteration without new tracks does not break.
NoNewTracksIgnored(newTracks) == FALSE

\* if (newTracks.length === 0) break;
NoNewTracks(newTracks) == Len(newTracks) = 0

\* the tracks of a fill response that are pushed
FillAppend(list, moreTracks) == FilterNew(moreTracks, list)

\* the loop's history once a response with this many new tracks is in
Answered(history, new) ==
  [history EXCEPT !.zeroNew = @ + (IF new = 0 THEN 1 ELSE 0),
                  !.productive = @ + (IF new > 0 THEN 1 ELSE 0)]

\* a response of the fill loop
StandardFillOk ==
  /\ pc = "std_fill"
  /\ \E r \in TrackResponses(FillSize(FillLimit), FillLimit, tracks) :
       LET newTracks == FillAppend(tracks, r.ids)
       IN /\ nextId' = nextId + r.fresh
          /\ dupResponses' = dupResponses + (IF r.dup THEN 1 ELSE 0)
          /\ IF NoNewTracks(newTracks)
             THEN StandardFinish(tracks, Answered(fill, Len(newTracks)))
             ELSE StandardFillOrFinish(tracks \o newTracks,
                                       Answered(fill, Len(newTracks)))
  /\ UNCHANGED <<options, currentYear, catalog, provider, profile, strategy, loc, error,
                 failedAt, playlist, vibeVars, tasteVars, clientVars, mapperVars>>

(***************************************************************************)
(* The finalizer: name, createPlaylist, addTracksToPlaylist.               *)
(***************************************************************************)
UpperChar(c) ==
  IF \E i \in 1..Len(LowerChars) : CharAt(LowerChars, i) = c
  THEN CharAt(UpperChars, CHOOSE i \in 1..Len(LowerChars) : CharAt(LowerChars, i) = c)
  ELSE c

capitalize(s) == UpperChar(CharAt(s, 1)) \o SubSeq(s, 2, Len(s))

\* the name generatePlaylist gives a standard playlist
StandardName ==
  LET parts ==
        (IF options.mood # "" THEN <<capitalize(options.mood)>> ELSE <<>>)
        \o (IF options.activity # "" THEN <<capitalize(options.activity)>> ELSE <<>>)
        \o (IF options.timeOfDay # "" THEN <<capitalize(options.timeOfDay)>> ELSE <<>>)
        \o (IF options.vibe # "" THEN <<"\"" \o options.vibe \o "\"">> ELSE <<>>)
        \o (IF options.discover THEN <<"Discovery">> ELSE <<>>)
        \o (IF options.basedOn # "" THEN <<"Like " \o BasedOnName>> ELSE <<>>)
  IN IF Len(parts) > 0 THEN JoinWith(parts, " ") \o " Mix" ELSE "Generated Playlist"

\* the name finalizePlaylist gives, by strategy; the standard strategy
\* names its playlist inline
FinalizeName ==
  IF options.name # "" THEN options.name
  ELSE CASE strategy = "standard" -> StandardName
         [] strategy = "blend" ->
              IF Len(options.blendWith) > 1
              THEN "Blend: You + " \o options.blendWith[1] \o " & " \o options.blendWith[2]
              ELSE "Blend: You + " \o options.blendWith[1]
         [] strategy = "timemachine" ->
              IF options.birthYear # 0
              THEN "High School Hits (" \o ToString(options.birthYear + 14) \o "-"
                     \o ToString(options.birthYear + 18) \o ")"
              ELSE "Time Machine: " \o ToString(options.targetYear)
         [] strategy = "genre" ->
              IF options.deepCuts # FALSE
              THEN capitalize(options.genre) \o " Deep Cuts"
              ELSE capitalize(options.genre) \o " Mix"
         [] OTHER -> "Generated Playlist"

\* getMe() has answered: createPlaylist is sent
GetMeOk ==
  /\ pc = "getme"
  /\ pc' = "create"
  /\ calls' = Issue("create")
  /\ UNCHANGED <<options, currentYear, catalog, provider, profile, strategy, loc, recParams,
                 lastRequest, tracks, nextId, dupResponses, fill, error, failedAt,
                 playlist, vibeVars, tasteVars, clientVars, mapperVars>>

\* addTracksToPlaylist sends the uris in chunks of 100
AddChunkSize == 100

\* Mutant of ChunkCount: a request is sent even when there is nothing to add.
ChunkCountAtLeastOne(n) == IF n = 0 THEN 1 ELSE CeilDiv(n, AddChunkSize)

\* for (let i = 0; i < trackUris.length; i += 100): the requests sent
ChunkCount(n) == CeilDiv(n, AddChunkSize)

\* createPlaylist has answered: the first chunk of uris is sent, if any
CreateOk ==
  /\ pc = "create"
  /\ playlist' = [playlist EXCEPT !.created = @ + 1, !.name = FinalizeName]
  /\ IF ChunkCount(Len(tracks)) = 0
     THEN pc' = "done" /\ UNCHANGED calls
     ELSE pc' = "add" /\ calls' = Issue("add")
  /\ UNCHANGED <<options, currentYear, catalog, provider, profile, strategy, loc, recParams,
                 lastRequest, tracks, nextId, dupResponses, fill, error, failedAt,
                 vibeVars, tasteVars, clientVars, mapperVars>>

\* a chunk was accepted: the next one is sent, or the invocation returns
AddOk ==
  /\ pc = "add"
  /\ playlist' = [playlist EXCEPT
                    !.uris = @ \o SubSeq(tracks, Len(@) + 1,
                                         Min(Len(@) + AddChunkSize, Len(tracks)))]
  /\ IF Len(playlist'.uris) < Len(tracks)
     THEN pc' = "add" /\ calls' = Issue("add")
     ELSE pc' = "done" /\ UNCHANGED calls
  /\ UNCHANGED <<options, currentYear, catalog, provider, profile, strategy, loc, recParams,
                 lastRequest, tracks, nextId, dupResponses, fill, error, failedAt,
                 vibeVars, tasteVars, clientVars, mapperVars>>

Next ==
  \/ GatherOk
  \/ DispatchBlend
  \/ BlendSearchOk
  \/ BlendGenresOk
  \/ BlendRecOk
  \/ DispatchTimeMachine
  \/ TimeMachineYearOk
  \/ DispatchGenre
  \/ GenreListOk
  \/ GenreRec1Ok
  \/ GenreRec2Ok
  \/ DispatchStandard
  \/ StandardSearchOk
  \/ StandardGenresOk
  \/ StandardRecOk
  \/ StandardFillOk
  \/ GetMeOk
  \/ CreateOk
  \/ AddOk
  \/ ProviderFails

Spec == Init /\ [][Next]_vars

(***************************************************************************)
(* Properties of generatePlaylist.                                         *)
(***************************************************************************)
\* a request of the fill loop is unanswered, or was when the invocation failed
FillInFlight == pc = "std_fill" \/ failedAt = "std_fill"

Finalizing == pc \in FinalizerPcs \cup {"done"}

\* C1: the duration-fill loop terminates whatever the provider answers.  A
\* response without any not-yet-seen id ends the loop at once: there is at
\* most one such response and no request follows it.  Every other response
\* lengthens the list, and a request is only sent while the list is below
\* the cap and the target, so the requests are bounded.  When no response
\* of the loop held a new id, the loop made exactly one request, the second
\* recommendation request of the invocation.
FillLoopTerminates ==
  /\ fill.zeroNew <= 1
  /\ fill.zeroNew = 1 => pc # "std_fill"
  /\ fill.iterations
       = fill.productive + fill.zeroNew + (IF FillInFlight THEN 1 ELSE 0)
  /\ Len(fill.accumulated) >= fill.productive
  /\ pc = "std_fill" =>
       Len(tracks) < FillCap /\ TotalDuration(tracks) < options.duration
  /\ fill.iterations <= FillCap + 1
  /\ (fill.entered /\ fill.productive = 0 /\ Finalizing) =>
       fill.iterations = 1 /\ calls.recommendations = 2

\* C1 witness: a finished duration request whose only fill response brought
\* nothing new, after an initial response of at least two tracks.
FillLoopTerminatesWitness ==
  /\ pc = "done"
  /\ options.duration # 0
  /\ fill.entered
  /\ fill.zeroNew = 1
  /\ fill.productive = 0
  /\ fill.iterations = 1
  /\ calls.recommendations = 2
  /\ Len(tracks) >= 2

\* C2: during duration-fill the accumulated list never holds more than 100
\* tracks.
FillWithinCap == fill.entered => Len(fill.accumulated) <= FillCap

\* C3: after the duration-fill loop has run, no track id occurs twice in
\* the accumulated list.
FillAccumulatesDistinct ==
  (strategy = "standard" /\ fill.entered /\ Finalizing) =>
    ~HasRepeat(fill.accumulated)

\* the span birthYear + 14 .. birthYear + 18 misses [1950, current year]
SpanOutside ==
  options.birthYear + 18 < MinYear \/ options.birthYear + 14 > currentYear

GenreResolved == strategy = "genre" /\ "availableGenres" \in DOMAIN loc

\* C5: once a strategy has thrown or a provider call of aggregation or
\* generation was rejected, the invocation is over: no getMe, createPlaylist
\* or addTracksToPlaylist request is ever sent, and the failed step was not
\* repeated (each blend artist searched once, the genre list asked once, no
\* year searched).
FailurePropagates ==
  (error # "" /\ failedAt \in GenerationPcs \cup {"dispatch"}) =>
    /\ pc = "failed"
    /\ calls.me = 0
    /\ calls.create = 0
    /\ calls.add = 0
    /\ playlist = NoPlaylist
    /\ error = "Could not find any of the specified artists to blend with" =>
         calls.search = Len(options.blendWith) /\ calls.recommendations = 0
    /\ (GenreResolved
          /\ error = GenreNotAvailable(loc.availableGenres, options.genre)) =>
         calls.genres = 1 /\ calls.recommendations = 0
    /\ error = "No valid years to search for" => calls.year = 0

\* C5 witness: a blend none of whose artists was found has failed after
\* searching each of them.
FailurePropagatesWitness ==
  /\ pc = "failed"
  /\ error = "Could not find any of the specified artists to blend with"
  /\ Len(options.blendWith) = 3
  /\ calls.search = 3
  /\ calls.create = 0

\* the steps that receive a list of tracks
TrackResponsePcs ==
  {"blend_rec", "tm_year", "genre_rec1", "genre_rec2", "std_rec", "std_fill"}

\* C6: a short or empty track response is never an error: where a track
\* list is awaited only the provider's rejection fails the invocation, and
\* an invocation that returns has created one playlist and added exactly
\* the tracks it accumulated, in as many requests as they need (none for
\* an empty list).
ShortResponsesAreNotErrors ==
  /\ failedAt \in TrackResponsePcs => error = "Spotify API error"
  /\ pc = "done" =>
       /\ error = ""
       /\ playlist.created = 1
       /\ playlist.uris = tracks
       /\ calls.add = CeilDiv(Len(tracks), AddChunkSize)

\* C6 witness: the provider never returned a track and the invocation has
\* returned with an empty playlist created.
ShortResponsesAreNotErrorsWitness ==
  /\ pc = "done"
  /\ nextId = 1
  /\ tracks = <<>>
  /\ calls.recommendations + calls.year >= 1
  /\ playlist.created = 1
  /\ calls.add = 0

\* some allowed genre matches the request by one of the three rules
SomeRuleMatches ==
  \E i \in DOMAIN loc.availableGenres :
    \/ ExactOrSubstring(loc.availableGenres[i], options.genre)
    \/ TokenOverlap(loc.availableGenres[i], options.genre)

\* C7: genre resolution raises the "not available" failure exactly when no
\* allowed genre matches the request by the exact, substring or
\* token-overlap rule; a token-overlap match alone is enough to go on.
GenreResolutionFuzzy ==
  GenreResolved =>
    (error = GenreNotAvailable(loc.availableGenres, options.genre)
       <=> ~SomeRuleMatches)

\* C7 witness: "synthwave" against a list holding "synth-pop" and no exact
\* or substring match has passed resolution.
GenreResolutionFuzzyWitness ==
  /\ GenreResolved
  /\ options.genre = "synthwave"
  /\ Contains(loc.availableGenres, "synth-pop")
  /\ \A i \in DOMAIN loc.availableGenres :
       ~ExactOrSubstring(loc.availableGenres[i], options.genre)
  /\ pc = "genre_rec1"
  /\ error = ""

\* C8: every genre seed the genre strategy sends with a recommendation
\* request is in the allowed list.
GenreSeedsAllowed ==
  (GenreResolved /\ "seed_genres" \in DOMAIN lastRequest) =>
    \A i \in DOMAIN lastRequest["seed_genres"] :
      Contains(loc.availableGenres, lastRequest["seed_genres"][i])

(***************************************************************************)
(* Numbers.  A JavaScript number is an IEEE-754 double: a sign, an         *)
(* exponent and 53 significant bits.  The result of +, * and / is the      *)
(* exact result rounded to the nearest such number, a tie going to the     *)
(* even mantissa, and a decimal literal or JSON number is the nearest      *)
(* number to what is written.  The model keeps these rules with            *)
(* MantissaBits significant bits: a number is m * 2^e with                 *)
(* 2^(MantissaBits-1) <= |m| < 2^MantissaBits, or zero, or NaN, or an      *)
(* infinity.  Integers below 2^MantissaBits are exact, as they are below   *)
(* 2^53 in the build.                                                      *)
(***************************************************************************)
MantissaBits == 9

Zero == [kind |-> "num", m |-> 0, e |-> 0]

NotANumber == [kind |-> "nan", m |-> 0, e |-> 0]

Infinity(sign) == [kind |-> "inf", m |-> sign, e |-> 0]

Abs(n) == IF n < 0 THEN 0 - n ELSE n

\* the number nearest to (a / d) * 2^e, for integers a > 0 and d > 0
RECURSIVE RoundPositive(_, _, _)
RoundPositive(a, d, e) ==
  IF a < d * 2^(MantissaBits - 1) THEN RoundPositive(2 * a, d, e - 1)
  ELSE IF a >= d * 2^MantissaBits THEN RoundPositive(a, 2 * d, e + 1)
  ELSE LET q == a \div d
           r == a % d
           up == 2 * r > d \/ (2 * r = d /\ q % 2 = 1)
           m == IF up THEN q + 1 ELSE q
       IN IF m = 2^MantissaBits
          THEN [kind |-> "num", m |-> 2^(MantissaBits - 1), e |-> e + 1]
          ELSE [kind |-> "num", m |-> m, e |-> e]

\* the number nearest to (n / d) * 2^e, for integers n and d > 0
Round(n, d, e) ==
  IF n = 0 THEN Zero
  ELSE LET x == RoundPositive(Abs(n), d, e)
       IN IF n < 0 THEN [x EXCEPT !.m = 0 - @] ELSE x

\* the number a decimal with two fractional digits denotes: 0.6 is Dec(60)
Dec(hundredths) == Round(hundredths, 100, 0)

\* x * y, for finite x and y
Times(x, y) ==
  IF x.kind = "nan" \/ y.kind = "nan" THEN NotANumber
  ELSE Round(x.m * y.m, 1, x.e + y.e)

\* x + y, for finite x and y; an operand below half a unit in the last place
\* of the other does not change it
Plus(x, y) ==
  IF x.kind = "nan" \/ y.kind = "nan" THEN NotANumber
  ELSE IF x.m = 0 THEN y
  ELSE IF y.m = 0 THEN x
  ELSE IF x.e - y.e > MantissaBits + 1 THEN x
  ELSE IF y.e - x.e > MantissaBits + 1 THEN y
  ELSE LET e == IF x.e < y.e THEN x.e ELSE y.e
       IN Round(x.m * 2^(x.e - e) + y.m * 2^(y.e - e), 1, e)

\* x / y, for finite x and y: 0 / 0 is NaN, x / 0 an infinity
Over(x, y) ==
  IF x.kind = "nan" \/ y.kind = "nan" THEN NotANumber
  ELSE IF y.m = 0
       THEN IF x.m = 0 THEN NotANumber ELSE Infinity(IF x.m < 0 THEN 0 - 1 ELSE 1)
  ELSE IF y.m < 0 THEN Round(0 - x.m, 0 - y.m, x.e - y.e)
  ELSE Round(x.m, y.m, x.e - y.e)

\* x < y; false when either is NaN
LessThan(x, y) ==
  IF x.kind = "nan" \/ y.kind = "nan" THEN FALSE
  ELSE IF x.kind = "inf" \/ y.kind = "inf"
       THEN (x.kind = "inf" /\ x.m < 0 /\ y # x) \/ (y.kind = "inf" /\ y.m > 0 /\ y # x)
  ELSE IF x.m > 0 /\ y.m > 0 THEN x.e < y.e \/ (x.e = y.e /\ x.m < y.m)
  ELSE IF x.m < 0 /\ y.m < 0 THEN y.e < x.e \/ (x.e = y.e /\ x.m < y.m)
  ELSE x.m < y.m

\* Math.min(x, y) and Math.max(x, y)
MathMin(x, y) ==
  IF x.kind = "nan" \/ y.kind = "nan" THEN NotANumber
  ELSE IF LessThan(y, x) THEN y ELSE x

MathMax(x, y) ==
  IF x.kind = "nan" \/ y.kind = "nan" THEN NotANumber
  ELSE IF LessThan(x, y) THEN y ELSE x

(***************************************************************************)
(* The listening history.  Descriptors between 0 and 1 are written in      *)
(* hundredths, loudness in tenths of a dB, tempo in BPM; a track the       *)
(* provider has no descriptor for is answered with null and is not in      *)
(* `described`.                                                            *)
(***************************************************************************)
FeatureNames ==
  {"danceability", "energy", "valence", "acousticness", "instrumentalness", "tempo",
   "loudness"}

RangeNames == {"danceability", "energy", "valence", "tempo"}

\* the user's tracks, by id
Library ==
  << [popularity |-> 60, mode |-> 1, danceability |-> 10, energy |-> 10, valence |-> 10,
      acousticness |-> 10, instrumentalness |-> 0, tempo |-> 120, loudness |-> -50],
     [popularity |-> 35, mode |-> 0, danceability |-> 80, energy |-> 77, valence |-> 91,
      acousticness |-> 5, instrumentalness |-> 40, tempo |-> 90, loudness |-> -123],
     [popularity |-> 0, mode |-> 1, danceability |-> 20, energy |-> 91, valence |-> 77,
      acousticness |-> 80, instrumentalness |-> 0, tempo |-> 174, loudness |-> 0] >>

\* the user's artists, by id
ArtistGenres == << <<"rock", "indie">>, <<"pop", "rock">>, <<>> >>

\* the AudioFeatures object the provider's JSON holds for a track
AudioFeaturesOf(id) ==
  [name \in FeatureNames \cup {"mode"} |->
     IF name = "mode" THEN Library[id].mode
     ELSE IF name = "tempo" THEN Round(Library[id].tempo, 1, 0)
     ELSE IF name = "loudness" THEN Round(Library[id].loudness, 10, 0)
     ELSE Dec(Library[id][name])]

Histories ==
  { [shortTerm |-> s, mediumTerm |-> m, longTerm |-> l, recentlyPlayed |-> r,
     artistsShort |-> a, artistsMedium |-> <<2>>, artistsLong |-> <<3, 1>>,
     described |-> d] :
      s \in {<<>>, <<1>>, <<1, 2>>, <<2, 3, 1>>},
      m \in {<<>>, <<3>>},
      l \in {<<>>, <<2>>},
      r \in {<<>>, <<1, 1>>},
      a \in {<<1, 2>>},
      d \in {{}, {1, 3}, {1, 2, 3}} }

(***************************************************************************)
(* buildTasteProfile.                                                      *)
(***************************************************************************)
\* tier * (50 - i) / 50 for the track at index i of a tier, the tier's base
\* being num / den: the product is exact, the division rounds
TierWeight(num, den, i) == Round(num * (50 - i), den * 50, 0)

\* tier.map((t, i) => ({ track: t, weight: base * (50 - i) / 50 }))
Weighted(tier, num, den) ==
  [k \in 1..Len(tier) |-> [track |-> tier[k], weight |-> TierWeight(num, den, k - 1)]]

WeightedTracks(data) ==
  Weighted(data.shortTerm, 3, 1) \o Weighted(data.mediumTerm, 2, 1)
    \o Weighted(data.longTerm, 1, 1) \o Weighted(data.recentlyPlayed, 5, 2)

\* [...tier.map(a => ({ artist: a, weight }))]
WeightedArtists(data) ==
  [k \in 1..Len(data.artistsShort) |-> [artist |-> data.artistsShort[k], weight |-> 3]]
    \o [k \in 1..Len(data.artistsMedium) |-> [artist |-> data.artistsMedium[k], weight |-> 2]]
    \o [k \in 1..Len(data.artistsLong) |-> [artist |-> data.artistsLong[k], weight |-> 1]]

\* the genre occurrences in the order the two nested loops visit them
RECURSIVE GenreOccurrences(_)
GenreOccurrences(artists) ==
  IF artists = <<>> THEN <<>>
  ELSE LET genres == ArtistGenres[Head(artists).artist]
       IN [k \in 1..Len(genres) |-> [genre |-> genres[k], weight |-> Head(artists).weight]]
            \o GenreOccurrences(Tail(artists))

\* the keys of genreCounts in insertion order
RECURSIVE FirstSeen(_)
FirstSeen(occurrences) ==
  IF occurrences = <<>> THEN <<>>
  ELSE LET before == FirstSeen(SubSeq(occurrences, 1, Len(occurrences) - 1))
           genre == occurrences[Len(occurrences)].genre
       IN IF Contains(before, genre) THEN before ELSE Append(before, genre)

RECURSIVE GenreCount(_, _)
GenreCount(occurrences, genre) ==
  IF occurrences = <<>> THEN 0
  ELSE (IF Head(occurrences).genre = genre THEN Head(occurrences).weight ELSE 0)
         + GenreCount(Tail(occurrences), genre)

\* [...genreCounts.entries()].sort((a, b) => b[1] - a[1]).slice(0, 20)
TopGenres(data) ==
  LET occurrences == GenreOccurrences(WeightedArtists(data))
      names == FirstSeen(occurrences)
      count == [g \in {names[k] : k \in DOMAIN names} |-> GenreCount(occurrences, g)]
      sorted == Take(SortDesc(names, count), 20)
  IN [k \in DOMAIN sorted |-> [genre |-> sorted[k], count |-> count[sorted[k]]]]

\* the accumulators before the loop over weightedTracks
NoSums ==
  [totalWeight |-> Zero,
   featureSums |-> [name \in FeatureNames |-> Zero],
   featureMins |-> [name \in RangeNames |->
                      IF name = "tempo" THEN Round(300, 1, 0) ELSE Round(1, 1, 0)],
   featureMaxs |-> [name \in RangeNames |-> Zero],
   majorCount |-> 0, minorCount |-> 0, totalPopularity |-> 0, trackCount |-> 0]

\* Mutant of Accumulate: a track without descriptor still adds its weight,
\* its popularity and itself to the totals.
AccumulateWeightOfAll(acc, entry, described) ==
  LET features == AudioFeaturesOf(entry.track)
      has == entry.track \in described
  IN [totalWeight |-> Plus(acc.totalWeight, entry.weight),
      featureSums |-> [name \in FeatureNames |->
                         IF has
                         THEN Plus(acc.featureSums[name], Times(features[name], entry.weight))
                         ELSE acc.featureSums[name]],
      featureMins |-> [name \in RangeNames |->
                         IF has THEN MathMin(acc.featureMins[name], features[name])
                         ELSE acc.featureMins[name]],
      featureMaxs |-> [name \in RangeNames |->
                         IF has THEN MathMax(acc.featureMaxs[name], features[name])
                         ELSE acc.featureMaxs[name]],
      majorCount |-> acc.majorCount + (IF has /\ features.mode = 1 THEN 1 ELSE 0),
      minorCount |-> acc.minorCount + (IF has /\ features.mode # 1 THEN 1 ELSE 0),
      totalPopularity |-> acc.totalPopularity + Library[entry.track].popularity,
      trackCount |-> acc.trackCount + 1]

\* one iteration of the loop: a track without descriptor is skipped
Accumulate(acc, entry, described) ==
  IF entry.track \notin described THEN acc
  ELSE LET features == AudioFeaturesOf(entry.track)
       IN [totalWeight |-> Plus(acc.totalWeight, entry.weight),
           featureSums |-> [name \in FeatureNames |->
                              Plus(acc.featureSums[name], Times(features[name], entry.weight))],
           featureMins |-> [name \in RangeNames |->
                              MathMin(acc.featureMins[name], features[name])],
           featureMaxs |-> [name \in RangeNames |->
                              MathMax(acc.featureMaxs[name], features[name])],
           majorCount |-> acc.majorCount + (IF features.mode = 1 THEN 1 ELSE 0),
           minorCount |-> acc.minorCount + (IF features.mode = 1 THEN 0 ELSE 1),
           totalPopularity |-> acc.totalPopularity + Library[entry.track].popularity,
           trackCount |-> acc.trackCount + 1]

RECURSIVE Accumulated(_, _)
Accumulated(entries, described) ==
  IF entries = <<>> THEN NoSums
  ELSE Accumulate(Accumulated(SubSeq(entries, 1, Len(entries) - 1), described),
                  entries[Len(entries)], described)

\* Mutant of Average: the weighted sum is divided by the number of tracks.
AverageByCount(sum, sums) == Over(sum, Round(sums.trackCount, 1, 0))

\* featureSums.x / totalWeight
Average(sum, sums) == Over(sum, sums.totalWeight)

\* totalPopularity / trackCount; both are integers, the division rounds
AveragePopularity(sums) ==
  IF sums.trackCount = 0
  THEN Over(Round(sums.totalPopularity, 1, 0), Zero)
  ELSE Round(sums.totalPopularity, sums.trackCount, 0)

buildTasteProfile(data) ==
  LET sums == Accumulated(WeightedTracks(data), data.described)
      avgFeatures == [name \in FeatureNames |-> Average(sums.featureSums[name], sums)]
  IN [topGenres |-> TopGenres(data),
      avgFeatures |-> avgFeatures,
      featureRanges |-> [name \in RangeNames |->
                           [min |-> sums.featureMins[name], max |-> sums.featureMaxs[name]]],
      topArtistIds |-> Take(data.artistsShort, 10),
      topTrackIds |-> Take(data.shortTerm, 10),
      listeningPatterns |->
        [prefersMajorKey |-> sums.majorCount > sums.minorCount,
         prefersHighEnergy |-> LessThan(Dec(60), avgFeatures["energy"]),
         prefersAcoustic |-> LessThan(Dec(40), avgFeatures["acousticness"]),
         avgPopularity |-> AveragePopularity(sums)]]

(***************************************************************************)
(* gatherListeningData, then buildTasteProfile on what it returned.        *)
(***************************************************************************)
TasteInit ==
  /\ VibeIdle
  /\ GenIdle
  /\ ClientIdle
  /\ MapperIdle
  /\ listening \in Histories
  /\ fetches = [f \in FetchNames |-> "unstarted"]
  /\ tpc = "call"
  /\ descriptorFetches = 0
  /\ tasteProfile = EmptyParams
  /\ tError = ""

\* the seven calls are made while the array handed to Promise.all is built:
\* each runs to its first await
GatherStart ==
  /\ tpc = "call"
  /\ tpc' = "all"
  /\ fetches' = [f \in FetchNames |-> "pending"]
  /\ UNCHANGED <<listening, descriptorFetches, tasteProfile, tError, vibeVars, genVars,
                 clientVars, mapperVars>>

\* one of the seven promises is fulfilled; the others go on after a
\* rejection, their results unused
FetchOk(f) ==
  /\ tpc \in {"all", "failed"}
  /\ fetches[f] = "pending"
  /\ fetches' = [fetches EXCEPT ![f] = "fulfilled"]
  /\ UNCHANGED <<listening, tpc, descriptorFetches, tasteProfile, tError, vibeVars, genVars,
                 clientVars, mapperVars>>

\* one of the seven promises is rejected: Promise.all rejects with the first
\* rejection and the await throws
FetchFails(f) ==
  /\ tpc \in {"all", "failed"}
  /\ fetches[f] = "pending"
  /\ fetches' = [fetches EXCEPT ![f] = "rejected"]
  /\ tpc' = "failed"
  /\ tError' = (IF tpc = "all" THEN "Spotify API error" ELSE tError)
  /\ UNCHANGED <<listening, descriptorFetches, tasteProfile, vibeVars, genVars,
                 clientVars, mapperVars>>

\* Mutant of AllFulfilled: the first fulfilment resumes the function.
SomeFulfilled(state) == \E f \in FetchNames : state[f] = "fulfilled"

\* Promise.all is fulfilled when each of its promises is
AllFulfilled(state) == \A f \in FetchNames : state[f] = "fulfilled"

\* [...new Set(allTracks.map(t => t.id))]
UniqueTrackIds(data) ==
  LET allTracks == data.shortTerm \o data.mediumTerm \o data.longTerm \o data.recentlyPlayed
  IN {allTracks[k] : k \in DOMAIN allTracks}

\* the await of Promise.all returns; getAudioFeatures(uniqueTrackIds) is called
GatherContinue ==
  /\ tpc = "all"
  /\ AllFulfilled(fetches)
  /\ tpc' = "features"
  /\ descriptorFetches' = descriptorFetches + 1
  /\ UNCHANGED <<listening, fetches, tasteProfile, tError, vibeVars, genVars, clientVars, mapperVars>>

\* the AnalysisData returned: audioFeatures holds the descriptors that are
\* not null among those of the ids asked for
AnalysisData(data) == [data EXCEPT !.described = @ \cap UniqueTrackIds(data)]

\* getAudioFeatures returns (without a request when there is no id)
FeaturesOk ==
  /\ tpc = "features"
  /\ tpc' = "gathered"
  /\ UNCHANGED <<listening, fetches, descriptorFetches, tasteProfile, tError, vibeVars,
                 genVars, clientVars, mapperVars>>

\* the request of getAudioFeatures is rejected
FeaturesFails ==
  /\ tpc = "features"
  /\ UniqueTrackIds(listening) # {}
  /\ tpc' = "failed"
  /\ tError' = "Spotify API error"
  /\ UNCHANGED <<listening, fetches, descriptorFetches, tasteProfile, vibeVars, genVars,
                 clientVars, mapperVars>>

\* const tasteProfile = buildTasteProfile(data)
Build ==
  /\ tpc = "gathered"
  /\ tpc' = "built"
  /\ tasteProfile' = buildTasteProfile(AnalysisData(listening))
  /\ UNCHANGED <<listening, fetches, descriptorFetches, tError, vibeVars, genVars,
                 clientVars, mapperVars>>

TasteNext ==
  \/ GatherStart
  \/ \E f \in FetchNames : FetchOk(f)
  \/ \E f \in FetchNames : FetchFails(f)
  \/ GatherContinue
  \/ FeaturesOk
  \/ FeaturesFails
  \/ Build

TasteSpec == TasteInit /\ [][TasteNext]_vars

(***************************************************************************)
(* Properties of gatherListeningData and buildTasteProfile, under          *)
(* TasteSpec.                                                              *)
(***************************************************************************)
\* the tracks of the tiers that have a descriptor
Contributing(data) == UniqueTrackIds(data) \cap data.described

\* every track of every tier carries a descriptor and there is a track
AllDescribed(data) ==
  UniqueTrackIds(data) # {} /\ UniqueTrackIds(data) \subseteq data.described

DescriptorValues(data, name) == {AudioFeaturesOf(t)[name] : t \in Contributing(data)}

LeastOf(xs) == CHOOSE x \in xs : \A y \in xs : ~LessThan(y, x)

GreatestOf(xs) == CHOOSE x \in xs : \A y \in xs : ~LessThan(x, y)

Magnitude(x) == [x EXCEPT !.m = Abs(@)]

\* x as a multiple of 2^e, for e at most the exponent of x
Scaled(x, e) == IF x.m = 0 THEN 0 ELSE x.m * 2^(x.e - e)

\* x <= y + k * 2^(-MantissaBits) * a, for finite x, y and a
AtMostWithin(x, y, k, a) ==
  LET exponents == {z.e : z \in {v \in {x, y, a} : v.m # 0}}
      e == IF exponents = {} THEN 0
           ELSE CHOOSE low \in exponents : \A other \in exponents : low <= other
      excess == Scaled(x, e) - Scaled(y, e)
  IN excess <= (k * Scaled(a, e)) \div 2^MantissaBits

\* C12 as stated: when every track of every tier carries a descriptor and
\* there is at least one track, each avgFeatures value computed by
\* buildTasteProfile lies between the least and the greatest value of that
\* descriptor over the contributing tracks.
AverageWithinRange ==
  (tpc = "built" /\ AllDescribed(listening)) =>
    \A name \in FeatureNames :
      LET values == DescriptorValues(listening, name)
          avg == tasteProfile.avgFeatures[name]
      IN /\ avg.kind = "num"
         /\ ~LessThan(avg, LeastOf(values))
         /\ ~LessThan(GreatestOf(values), avg)

\* C12, amended: under the same condition each avgFeatures value lies
\* between the least and the greatest value of that descriptor over the
\* contributing tracks up to the rounding of the arithmetic: it is at least
\* min - t and at most max + t, where t is (2n + 2) * 2^(-MantissaBits)
\* times the largest magnitude of the descriptor, n being the number of
\* contributing entries of the weighted list.
AverageWithinRounding ==
  (tpc = "built" /\ AllDescribed(listening)) =>
    \A name \in FeatureNames :
      LET values == DescriptorValues(listening, name)
          avg == tasteProfile.avgFeatures[name]
          largest == GreatestOf({Magnitude(v) : v \in values})
          k == 2 * Len(WeightedTracks(listening)) + 2
      IN /\ avg.kind = "num"
         /\ AtMostWithin(avg, GreatestOf(values), k, largest)
         /\ AtMostWithin(LeastOf(values), avg, k, largest)

\* a profile built from a history in which every track has a descriptor,
\* one of its averages being above the greatest contributing value
AverageWithinRoundingWitness ==
  /\ tpc = "built"
  /\ AllDescribed(listening)
  /\ \E name \in FeatureNames :
       LessThan(GreatestOf(DescriptorValues(listening, name)),
                tasteProfile.avgFeatures[name])

\* C13: when no weighted track has a descriptor (the total weight is zero)
\* buildTasteProfile returns a zero profile: every avgFeatures value and
\* avgPopularity are 0.
ZeroProfileWithoutDescriptors ==
  (tpc = "built" /\ Contributing(listening) = {}) =>
    /\ \A name \in FeatureNames : tasteProfile.avgFeatures[name] = Zero
    /\ tasteProfile.listeningPatterns.avgPopularity = Zero

\* C20: the seven fetches of gatherListeningData are all started before any
\* of them is awaited; getAudioFeatures is called only once all seven are
\* fulfilled, in whatever order; if one of them is rejected the rejection
\* propagates: getAudioFeatures is not called and no profile is built.
GatherAwaitsAllSeven ==
  /\ (tpc # "call" \/ \E f \in FetchNames : fetches[f] # "unstarted") =>
       \A f \in FetchNames : fetches[f] # "unstarted"
  /\ descriptorFetches <= 1
  /\ (descriptorFetches > 0 \/ tpc \in {"features", "gathered", "built"}) =>
       \A f \in FetchNames : fetches[f] = "fulfilled"
  /\ (\E f \in FetchNames : fetches[f] = "rejected") =>
       /\ tpc = "failed"
       /\ tError # ""
       /\ descriptorFetches = 0
       /\ tasteProfile = EmptyParams

\* a profile was built after the seven fetches were fulfilled and one
\* descriptor fetch was made
GatherAwaitsAllSevenWitness ==
  /\ tpc = "built"
  /\ \A f \in FetchNames : fetches[f] = "fulfilled"
  /\ descriptorFetches = 1
  /\ tasteProfile # EmptyParams

(***************************************************************************)
(* The intent-to-target mapping of generatePlaylist, called repeatedly in  *)
(* one process: the preset lookups and parseVibe, then the assignments the *)
(* caller makes to the recParams object it got.                            *)
(***************************************************************************)
MaxMapperCalls == 2

MapperRequests ==
  { [mood |-> mo, activity |-> a, timeOfDay |-> t, vibe |-> v] :
      mo \in {"", "happy", "sad", "unknown"},
      a \in {"", "party", "focus"},
      t \in {"", "night"},
      v \in {"", "late night coding session", "gym", "rainy day melancholy"} }

MapperInit ==
  /\ VibeIdle
  /\ GenIdle
  /\ TasteIdle
  /\ ClientIdle
  /\ presets = PresetTables
  /\ request \in MapperRequests
  /\ mapped = <<>>
  /\ held = NotHeld
  /\ written = FALSE

\* Mutant of SpreadPreset: recParams = Object.assign(TABLE[key], recParams),
\* the preset object receives the fields and is the result.
AssignPreset(state, table, key) ==
  IF key # "" /\ key \in DOMAIN state.presets[table]
  THEN LET merged == Spread(state.presets[table][key], state.value)
       IN [presets |-> [state.presets EXCEPT ![table][key] = merged],
           alias |-> <<table, key>>, value |-> merged]
  ELSE state

\* if (key && TABLE[key]) recParams = { ...recParams, ...TABLE[key] }: the
\* result is a new object
SpreadPreset(state, table, key) ==
  IF key # "" /\ key \in DOMAIN state.presets[table]
  THEN [presets |-> state.presets, alias |-> <<>>,
        value |-> Spread(state.value, state.presets[table][key])]
  ELSE state

\* let recParams = { limit: options.trackCount || 25 }, the presets, the vibe
MapperCall ==
  /\ Len(mapped) < MaxMapperCalls
  /\ LET r0 == [presets |-> presets, alias |-> <<>>, value |-> [limit |-> 25]]
         r1 == SpreadPreset(r0, "mood", request.mood)
         r2 == SpreadPreset(r1, "activity", request.activity)
         r3 == SpreadPreset(r2, "time", request.timeOfDay)
         r4 == IF request.vibe # ""
               THEN [r3 EXCEPT !.alias = <<>>,
                               !.value = Spread(@, parseVibe(request.vibe))]
               ELSE r3
     IN /\ presets' = r4.presets
        /\ held' = [alias |-> r4.alias, value |-> r4.value]
        /\ mapped' = Append(mapped, r4.value)
  /\ UNCHANGED <<request, written, vibeVars, genVars, tasteVars, clientVars>>

\* the assignments generatePlaylist makes to recParams after the mapping;
\* the targets are assigned only when undefined
CallerAssignments ==
  << [key |-> "seed_artists", value |-> <<"artist1">>, ifUndefined |-> FALSE],
     [key |-> "max_popularity", value |-> 50, ifUndefined |-> FALSE],
     [key |-> "target_energy", value |-> 55, ifUndefined |-> TRUE],
     [key |-> "limit", value |-> 2, ifUndefined |-> FALSE] >>

\* recParams.key = value: an assignment to an object that is a preset
\* changes the preset
CallerWrites ==
  /\ mapped # <<>>
  /\ \E n \in DOMAIN CallerAssignments :
       LET w == CallerAssignments[n]
           value == [k \in DOMAIN held.value \cup {w.key} |->
                       IF k = w.key THEN w.value ELSE held.value[k]]
       IN /\ w.ifUndefined => w.key \notin DOMAIN held.value
          /\ value # held.value
          /\ held' = [held EXCEPT !.value = value]
          /\ presets' = IF held.alias = <<>> THEN presets
                        ELSE [presets EXCEPT ![held.alias[1]][held.alias[2]] = value]
  /\ written' = TRUE
  /\ UNCHANGED <<request, mapped, vibeVars, genVars, tasteVars, clientVars>>

MapperNext == MapperCall \/ CallerWrites

MapperSpec == MapperInit /\ [][MapperNext]_vars

\* C14: the intent-to-target mapping is idempotent: the calls made with the
\* same mood, activity, time-of-day key and vibe text produce identical
\* output, and no call, nor what the caller does with the result, changes
\* the preset tables a later call reads.
MapperIdempotent ==
  /\ \A i, j \in DOMAIN mapped : mapped[i] = mapped[j]
  /\ presets = PresetTables

\* a second call made after the caller assigned to fields of the first
\* call's result, the request naming a preset and a vibe
MapperIdempotentWitness ==
  /\ Len(mapped) >= 2
  /\ written
  /\ held.value = mapped[Len(mapped)]
  /\ request.mood \in DOMAIN MOOD_PRESETS
  /\ request.vibe # ""

(***************************************************************************)
(* Properties of the genre deep dive and of the time machine, under Spec.  *)
(***************************************************************************)
\* generateGenreDeepDive has returned its list
GenreReturned == strategy = "genre" /\ pc \in FinalizerPcs \cup {"done"}

\* C15: in deep-cuts mode every track of the list the genre deep dive
\* returns has popularity below 50, whatever popularity the responses carry.
DeepCutsBelowFifty ==
  (GenreReturned /\ IsDeepCuts) =>
    \A i \in DOMAIN tracks : Popularity(tracks[i]) < 50

\* occurrences of id in seq
Count(seq, id) == Cardinality({i \in DOMAIN seq : seq[i] = id})

\* C16: the genre deep dive issues at most two recommendation requests: the
\* supplemental one is issued once, after the first response, and only when
\* the filtered first result is shorter than the requested count; its
\* response adds no id that the list already holds, and the list returned
\* is cut to the requested count.
GenreSupplementalOnce ==
  [][strategy' = "genre" =>
       /\ calls'.recommendations <= 2
       /\ pc' = "genre_rec2" =>
            /\ pc = "genre_rec1"
            /\ calls.recommendations = 1 /\ calls'.recommendations = 2
            /\ Len(tracks') < GenreTrackCount
       /\ (pc = "genre_rec1" /\ pc' = "getme") =>
            /\ calls'.recommendations = 1
            /\ Len(tracks') = GenreTrackCount
       /\ (pc = "genre_rec2" /\ pc' = "getme") =>
            /\ calls'.recommendations = 2
            /\ Len(tracks') <= GenreTrackCount
            /\ \A i \in DOMAIN tracks : Count(tracks', tracks[i]) <= Count(tracks, tracks[i])
            /\ \A i \in DOMAIN tracks :
                 Len(tracks') < GenreTrackCount => Contains(tracks', tracks[i])]_vars

\* the deep dive has returned after a supplemental request that followed a
\* non-empty first result, and returns more than that result held
GenreSupplementalOnceWitness ==
  /\ GenreReturned
  /\ calls.recommendations = 2
  /\ Len(tracks) >= 2
  /\ \E i, j \in DOMAIN tracks : tracks[i] < nextId - 1 /\ tracks[j] = nextId - 1

\* the years searchTracksByYear was called with so far, in call order
YearsQueried == IF "queried" \in DOMAIN loc THEN loc.queried ELSE <<>>

\* the requested years that lie in [1950, current year]
SurvivingYears ==
  {y \in {RequestedYears[i] : i \in DOMAIN RequestedYears} :
     MinYear <= y /\ y <= currentYear}

\* C17: the time machine issues exactly one year request for each target
\* year that lies in [1950, current year], one after another in ascending
\* year order, and none for a year outside; a failed year request ends the
\* invocation without a further year request.
TimeMachineOneRequestPerYear ==
  [][strategy' = "timemachine" =>
       /\ calls'.year = Len(YearsQueried')
       /\ \A i \in DOMAIN YearsQueried' : YearsQueried'[i] \in SurvivingYears'
       /\ \A i, j \in DOMAIN YearsQueried' : i < j => YearsQueried'[i] < YearsQueried'[j]
       /\ \A y \in SurvivingYears' :
            (\E i \in DOMAIN YearsQueried' : y < YearsQueried'[i]) =>
              Contains(YearsQueried', y)
       /\ pc' \in FinalizerPcs \cup {"done"} =>
            \A y \in SurvivingYears' : Contains(YearsQueried', y)
       /\ (pc = "tm_year" /\ pc' = "tm_year") => calls'.year = calls.year + 1
       /\ (pc = "tm_year" /\ pc' = "failed") =>
            /\ calls'.year = calls.year
            /\ failedAt' = "tm_year"
       /\ pc = "failed" => calls'.year = calls.year]_vars

\* the time machine for birth year 1934 has returned: 1948 and 1949 were
\* dropped, 1950, 1951 and 1952 were asked for
TimeMachineOneRequestPerYearWitness ==
  /\ strategy = "timemachine"
  /\ pc = "getme"
  /\ options.birthYear = 1934
  /\ options.targetYear = 0
  /\ YearsQueried = <<1950, 1951, 1952>>
  /\ calls.year = 3

\* C18: the combined list the time machine returns holds no track id more
\* than once, whatever the year responses carry.
TimeMachineNoRepeats ==
  (strategy = "timemachine" /\ pc \in FinalizerPcs \cup {"done"}) => ~HasRepeat(tracks)

(***************************************************************************)
(* SpotifyClient.request: one logical request, with refreshToken.  The     *)
(* answers of the provider and of the token endpoint are free.  expired    *)
(* stands for Date.now() >= expires_at - 60000.                            *)
(***************************************************************************)
MaxAttempts == 4

TokenStates ==
  {NoTokens} \cup { [present |-> TRUE, expired |-> e, refreshable |-> r] :
                      e \in BOOLEAN, r \in BOOLEAN }

\* the statuses the provider answers a request with
Statuses == {200, 204, 401, 403, 429, 500}

ClientInit ==
  /\ VibeIdle
  /\ GenIdle
  /\ TasteIdle
  /\ MapperIdle
  /\ tokens \in TokenStates
  /\ cpc = "call"
  /\ attempts = 0
  /\ refreshes = 0
  /\ outcome = ""

StatusText(status) ==
  CASE status = 403 -> "403"
    [] status = 429 -> "429"
    [] OTHER -> "500"

\* request up to its first await: the guard, the expiry check, the fetch
RequestBody ==
  IF ~tokens.present
  THEN /\ cpc' = "thrown"
       /\ outcome' = "Not authenticated. Run: spotify-gen auth"
       /\ UNCHANGED <<attempts, refreshes>>
  ELSE IF tokens.expired
  THEN IF ~tokens.refreshable
       THEN /\ cpc' = "thrown"
            /\ outcome' = "No refresh token available"
            /\ UNCHANGED <<attempts, refreshes>>
       ELSE /\ cpc' = "refresh_expiry"
            /\ refreshes' = refreshes + 1
            /\ UNCHANGED <<attempts, outcome>>
  ELSE /\ attempts < MaxAttempts
       /\ cpc' = "fetch"
       /\ attempts' = attempts + 1
       /\ UNCHANGED <<refreshes, outcome>>

\* a method of the client calls this.request(endpoint)
RequestCall ==
  /\ cpc = "call"
  /\ RequestBody
  /\ UNCHANGED <<tokens, vibeVars, genVars, tasteVars, mapperVars>>

\* the token endpoint answers the refresh made before the fetch: the new
\* tokens are stored and the fetch is made, whatever expires_in was
RefreshBeforeFetchOk ==
  /\ cpc = "refresh_expiry"
  /\ attempts < MaxAttempts
  /\ \E e \in BOOLEAN : tokens' = [present |-> TRUE, expired |-> e, refreshable |-> TRUE]
  /\ cpc' = "fetch"
  /\ attempts' = attempts + 1
  /\ UNCHANGED <<refreshes, outcome, vibeVars, genVars, tasteVars, mapperVars>>

\* the token endpoint answers the refresh made after a 401: the new tokens
\* are stored and request calls itself
RefreshAfter401Ok ==
  /\ cpc = "refresh_401"
  /\ \E e \in BOOLEAN :
       /\ tokens' = [present |-> TRUE, expired |-> e, refreshable |-> TRUE]
       /\ IF e
          THEN /\ cpc' = "refresh_expiry"
               /\ refreshes' = refreshes + 1
               /\ UNCHANGED <<attempts, outcome>>
          ELSE /\ attempts < MaxAttempts
               /\ cpc' = "fetch"
               /\ attempts' = attempts + 1
               /\ UNCHANGED <<refreshes, outcome>>
  /\ UNCHANGED <<vibeVars, genVars, tasteVars, mapperVars>>

\* if (!response.ok) throw new Error(`Token refresh failed: ...`)
RefreshFails ==
  /\ cpc \in {"refresh_expiry", "refresh_401"}
  /\ cpc' = "thrown"
  /\ outcome' = "Token refresh failed"
  /\ UNCHANGED <<tokens, attempts, refreshes, vibeVars, genVars, tasteVars, mapperVars>>

\* the provider answers the fetch
FetchAnswered ==
  /\ cpc = "fetch"
  /\ \E status \in Statuses :
       IF status = 401
       THEN IF ~tokens.refreshable
            THEN /\ cpc' = "thrown"
                 /\ outcome' = "No refresh token available"
                 /\ UNCHANGED refreshes
            ELSE /\ cpc' = "refresh_401"
                 /\ refreshes' = refreshes + 1
                 /\ UNCHANGED outcome
       ELSE IF status \notin {200, 204}
       THEN /\ cpc' = "thrown"
            /\ outcome' = "Spotify API error: " \o StatusText(status)
            /\ UNCHANGED refreshes
       ELSE /\ cpc' = "returned"
            /\ outcome' = (IF status = 204 THEN "{}" ELSE "json")
            /\ UNCHANGED refreshes
  /\ UNCHANGED <<tokens, attempts, vibeVars, genVars, tasteVars, mapperVars>>

ClientNext ==
  \/ RequestCall
  \/ RefreshBeforeFetchOk
  \/ RefreshAfter401Ok
  \/ RefreshFails
  \/ FetchAnswered

ClientSpec == ClientInit /\ [][ClientNext]_vars

\* C19: a request answered with 401 is retried once after the token refresh:
\* one logical request makes at most two fetches of the endpoint, also when
\* every fetch is answered with 401 and every refresh succeeds.
RetriesOnce == attempts <= 2

(***************************************************************************)
(* Properties of standard generation, under Spec.                          *)
(***************************************************************************)
\* C21: after the trim of a duration request the final list is a prefix of
\* the accumulated list, the shortest one whose total duration reaches the
\* target: when the accumulated total reaches the target, the final total
\* is at least the target and is below it without the last kept track;
\* otherwise the whole accumulated list is kept.
TrimKeepsShortestPrefix ==
  (strategy = "standard" /\ options.duration # 0 /\ Finalizing) =>
    /\ Len(tracks) <= Len(fill.accumulated)
    /\ tracks = SubSeq(fill.accumulated, 1, Len(tracks))
    /\ IF TotalDuration(fill.accumulated) >= options.duration
       THEN /\ TotalDuration(tracks) >= options.duration
            /\ Len(tracks) >= 1
            /\ TotalDuration(SubSeq(tracks, 1, Len(tracks) - 1)) < options.duration
       ELSE tracks = fill.accumulated

\* a duration request whose accumulated list went beyond the target and
\* lost its tail
TrimKeepsShortestPrefixWitness ==
  /\ strategy = "standard"
  /\ options.duration # 0
  /\ pc = "done"
  /\ Len(tracks) >= 2
  /\ Len(tracks) < Len(fill.accumulated)
  /\ TotalDuration(tracks) = options.duration

\* the layers of target values of the invocation in the order mood,
\* activity, time of day, vibe
TargetLayers ==
  << IF options.mood \in DOMAIN MOOD_PRESETS THEN MOOD_PRESETS[options.mood]
     ELSE EmptyParams,
     IF options.activity \in DOMAIN ACTIVITY_PRESETS THEN ACTIVITY_PRESETS[options.activity]
     ELSE EmptyParams,
     IF options.timeOfDay \in DOMAIN TIME_PRESETS THEN TIME_PRESETS[options.timeOfDay]
     ELSE EmptyParams,
     IF options.vibe # "" THEN parseVibe(options.vibe) ELSE EmptyParams >>

TargetKeys ==
  {"target_energy", "target_valence", "target_danceability", "target_acousticness",
   "target_instrumentalness", "target_tempo", "min_popularity"}

\* the profile average that stands in for an unset target
ProfileAverage(k) ==
  CASE k = "target_energy" -> profile.avgFeatures.energy
    [] k = "target_valence" -> profile.avgFeatures.valence
    [] k = "target_danceability" -> profile.avgFeatures.danceability

\* C22: in standard generation the targets are layered in the order mood
\* preset, activity preset, time-of-day preset, vibe result, a later layer
\* winning on a shared key; the profile averages fill target energy,
\* valence and danceability only where no layer set them, and a target no
\* layer set and the profile does not fill is not sent.
TargetsLayeredInOrder ==
  (strategy = "standard" /\ lastRequest # EmptyParams) =>
    \A k \in TargetKeys :
      LET setBy == {i \in 1..4 : k \in DOMAIN TargetLayers[i]}
          last == CHOOSE i \in setBy : \A j \in setBy : j <= i
      IN IF setBy # {}
         THEN k \in DOMAIN lastRequest /\ lastRequest[k] = TargetLayers[last][k]
         ELSE IF k \in {"target_energy", "target_valence", "target_danceability"}
         THEN k \in DOMAIN lastRequest /\ lastRequest[k] = ProfileAverage(k)
         ELSE k \notin DOMAIN lastRequest

\* the request for a sad morning: the time of day wins energy and valence
\* over the mood, the mood alone gives acousticness its value where the
\* time of day has none to give, and danceability, which neither sets,
\* comes from the profile
TargetsLayeredInOrderWitness ==
  /\ strategy = "standard"
  /\ pc = "std_rec"
  /\ options.mood = "sad"
  /\ options.timeOfDay = "morning"
  /\ lastRequest["target_energy"] = 50
  /\ lastRequest["target_valence"] = 70
  /\ lastRequest["target_danceability"] = profile.avgFeatures.danceability

\* C23: when the allowed list holds the requested genre itself (compared
\* case-insensitively), the genre seed is that genre, wherever in the list
\* the genres that contain it or are contained in it stand.
ExactMatchPreferred ==
  (GenreResolved /\ error = "") =>
    \A i \in DOMAIN loc.availableGenres :
      toLowerCase(loc.availableGenres[i]) = toLowerCase(options.genre) =>
        toLowerCase(loc.genreSeed) = toLowerCase(options.genre)

(***************************************************************************)
(* Properties of the accumulation loop of buildTasteProfile, under         *)
(* TasteSpec.                                                              *)
(***************************************************************************)
\* base * (50 - rank) / 50 as a number, the base being num / den
RankWeight(num, den, rank) ==
  Over(Times(Round(num, den, 0), Round(50 - rank, 1, 0)), Round(50, 1, 0))

RankWeighted(tier, num, den) ==
  [k \in 1..Len(tier) |-> [track |-> tier[k], weight |-> RankWeight(num, den, k - 1)]]

\* the tracks of the four tiers that have a descriptor, each with the weight
\* of its place in the provider's ordering of its tier
DescribedEntries(data) ==
  LET all == RankWeighted(data.shortTerm, 3, 1) \o RankWeighted(data.mediumTerm, 2, 1)
               \o RankWeighted(data.longTerm, 1, 1)
               \o RankWeighted(data.recentlyPlayed, 5, 2)
      hasDescriptor(entry) == entry.track \in data.described
  IN SelectSeq(all, hasDescriptor)

\* C24: a track without a descriptor contributes nothing to the weighted
\* sums, the ranges, the major/minor tally and the popularity average, and
\* does not change the weight of any other track: the profile built is the
\* one accumulated over the described tracks alone, each weighted
\* tierBaseWeight x (50 - rank) / 50 with rank its 0-based position in the
\* original ordering of its tier (short 3, recently played 2.5, medium 2,
\* long 1).
DescriptorlessContributeNothing ==
  tpc = "built" =>
    LET sums == Accumulated(DescribedEntries(listening), listening.described)
    IN /\ \A name \in FeatureNames :
            tasteProfile.avgFeatures[name] = Over(sums.featureSums[name], sums.totalWeight)
       /\ \A name \in RangeNames :
            /\ tasteProfile.featureRanges[name].min = sums.featureMins[name]
            /\ tasteProfile.featureRanges[name].max = sums.featureMaxs[name]
       /\ tasteProfile.listeningPatterns.prefersMajorKey
            = (sums.majorCount > sums.minorCount)
       /\ tasteProfile.listeningPatterns.avgPopularity
            = Over(Round(sums.totalPopularity, 1, 0), Round(sums.trackCount, 1, 0))

\* a profile built from a history whose most played recent track has no
\* descriptor while the two tracks ranked after it have one
DescriptorlessContributeNothingWitness ==
  /\ tpc = "built"
  /\ listening.shortTerm = <<2, 3, 1>>
  /\ listening.described = {1, 3}
  /\ listening.longTerm = <<2>>
  /\ tasteProfile.avgFeatures["energy"].kind = "num"
  /\ Len(DescribedEntries(listening)) < Len(WeightedTracks(listening))

\* C25: for danceability, energy, valence and tempo, featureRanges holds
\* the observed minimum and maximum: min is the smallest and max the largest
\* value of the descriptor among the tracks that contribute one, and
\* min <= max in every profile built.
RangesAreObserved ==
  tpc = "built" =>
    \A name \in RangeNames :
      LET range == tasteProfile.featureRanges[name]
          values == DescriptorValues(listening, name)
      IN /\ values # {} => (range.min = LeastOf(values) /\ range.max = GreatestOf(values))
         /\ ~LessThan(range.max, range.min)

(***************************************************************************)
(* Properties of the blend strategy, under Spec.                           *)
(***************************************************************************)
BlendRequested == strategy = "blend" /\ lastRequest # EmptyParams

BlendGenreSeeds ==
  IF "seed_genres" \in DOMAIN lastRequest THEN lastRequest["seed_genres"] ELSE <<>>

\* g and one of the user's top genres contain one another
OverlapsUserGenres(g) ==
  \E i \in DOMAIN profile.topGenres :
    includes(profile.topGenres[i], g) \/ includes(g, profile.topGenres[i])

\* C26: the blend request carries at most 3 artist seeds, up to 2 resolved
\* blend-artist ids followed by at most 1 of the user's top artist ids, and
\* at most 2 genre seeds, each a blend-artist genre of the allowed list, the
\* genres that overlap the user's top genres taken before the others; the
\* seeds are never more than 5.
BlendSeedsBounded ==
  BlendRequested =>
    LET artists == lastRequest["seed_artists"]
        genres == BlendGenreSeeds
        blended == IF Len(loc.artistIds) < 2 THEN Len(loc.artistIds) ELSE 2
        own == IF Len(profile.topArtistIds) < 1 THEN 0 ELSE 1
    IN /\ Len(artists) = blended + own
       /\ Len(artists) <= 3
       /\ \A i \in 1..blended : artists[i] = loc.artistIds[i]
       /\ own = 1 => artists[blended + 1] = profile.topArtistIds[1]
       /\ Len(genres) <= 2
       /\ \A i \in DOMAIN genres :
            /\ Contains(loc.availableGenres, genres[i])
            /\ Contains(loc.artistGenres, genres[i])
            /\ ~OverlapsUserGenres(genres[i]) =>
                 \A k \in DOMAIN loc.artistGenres :
                   (OverlapsUserGenres(loc.artistGenres[k])
                      /\ Contains(loc.availableGenres, loc.artistGenres[k])) =>
                     \E j \in 1..(i - 1) : genres[j] = loc.artistGenres[k]
       /\ Len(artists) + Len(genres) <= 5

\* a blend of three found artists: two of their ids and the user's first
\* top artist are the artist seeds, and the two overlapping genres are
\* taken although an allowed genre without overlap was collected first
BlendSeedsBoundedWitness ==
  /\ BlendRequested
  /\ pc = "blend_rec"
  /\ Len(loc.artistIds) = 3
  /\ lastRequest["seed_artists"] = <<"nobody", "adele", "a1">>
  /\ loc.artistGenres[1] = "k-pop"
  /\ Contains(loc.availableGenres, "k-pop")
  /\ BlendGenreSeeds = <<"pop", "synth-pop">>

(***************************************************************************)
(* Properties of the dispatch of generatePlaylist, under Spec.             *)
(***************************************************************************)
\* the keys each special strategy puts in a recommendation request
BlendKeys ==
  {"seed_artists", "seed_genres", "limit", "target_energy", "target_valence",
   "target_danceability"}

GenreKeys ==
  {"seed_artists", "seed_genres", "limit", "target_energy", "target_valence",
   "max_popularity"}

VibeEnergyInRange ==
  (vpc = "parsed" /\ "target_energy" \in DOMAIN vResult) =>
    (vResult["target_energy"] >= 0 /\ vResult["target_energy"] <= 100)

(***************************************************************************)
(* Properties of the requests and of the name, under Spec.                 *)
(***************************************************************************)
\* the seeds getRecommendations puts in the query for these parameters
SeedCount(params) ==
  (IF "seed_artists" \in DOMAIN params THEN Len(params["seed_artists"]) ELSE 0)
    + (IF "seed_tracks" \in DOMAIN params THEN Len(params["seed_tracks"]) ELSE 0)
    + (IF "seed_genres" \in DOMAIN params THEN Len(params["seed_genres"]) ELSE 0)

\* C29: every recommendation request any strategy sends carries at least
\* one seed (artist, track or genre).
EveryRequestSeeded ==
  (calls.recommendations > 0 /\ lastRequest # EmptyParams) => SeedCount(lastRequest) >= 1

\* C30: when the time machine runs without a caller-supplied name, the
\* default name describes the years the strategy queried: a name of high
\* school years goes with the five years from birthYear + 14 (those of them
\* that are valid), a name of one year with a query for that year alone.
TimeMachineNameMatchesYears ==
  (strategy = "timemachine" /\ options.name = "" /\ playlist.created = 1) =>
    LET highSchool == [i \in 1..5 |-> options.birthYear + 14 + (i - 1)]
    IN IF options.birthYear # 0
            /\ playlist.name = "High School Hits (" \o ToString(options.birthYear + 14)
                                 \o "-" \o ToString(options.birthYear + 18) \o ")"
       THEN \A i \in DOMAIN loc.queried :
              \E k \in 1..5 : loc.queried[i] = highSchool[k]
       ELSE /\ playlist.name = "Time Machine: " \o ToString(options.targetYear)
            /\ loc.queried = <<options.targetYear>>

====
